---------------------------- MODULE Spec2Model ----------------------------
(***************************************************************************)
(* WLAN Connection Manager (wlan.c): the dispatcher thread cm_main, the    *)
(* station state machine it drives, the scan lock, and the user API calls  *)
(* that feed it.                                                           *)
(*                                                                         *)
(* Build modelled: CONFIG_WPA_SUPP, CONFIG_11K/11V/11R, CONFIG_ROAMING,    *)
(* CONFIG_OWE, CONFIG_IPV6 undefined (the legacy, supplicant-less path).   *)
(*                                                                         *)
(* Each C function of the dispatcher is an operator from a state record to *)
(* a state record; the record's field "next" is handle_message's local     *)
(* variable `next`, which cm_main copies into sta_state after the handler. *)
(* One dispatcher action models one iteration of cm_main's loop.           *)
(***************************************************************************)
EXTENDS Integers, Sequences, FiniteSets, TLC

(***************************************************************************)
(* Program constants.                                                      *)
(***************************************************************************)
WLAN_RESCAN_LIMIT == 5
WLAN_RECONNECT_LIMIT == 5
WLAN_MAX_KNOWN_NETWORKS == 5
WLAN_NETWORK_NAME_MIN_LENGTH == 1
WLAN_NETWORK_NAME_MAX_LENGTH == 32
WLAN_PSK_MIN_LENGTH == 8
WLAN_PSK_MAX_LENGTH == 65
\* The greatest unsigned int, 2^32 - 1 in the build; the model's integers end
\* at 2^31 - 1 and this value stands for it.
UINT_MAX == 2147483647
IEEEtypes_REASON_MIC_FAILURE == 14
IEEEtypes_REASON_4WAY_HANDSHK_TIMEOUT == 15
REASON_OTHER == 1

(***************************************************************************)
(* Bounds of the model.                                                    *)
(***************************************************************************)
\* capacity of the event queue (MAX_EVENTS is 20 in the source; the model
\* uses a short queue so that "queue full" is reached)
QueueCap == 2
\* number of API calls the user threads make in one behaviour
MaxCalls == 2
\* number of failures in one behaviour: a command the driver or the IP stack
\* rejects or answers with a failure, a failed allocation, a lost link
MaxFaults == 1
\* scan commands the driver accepts before it has answered the earlier ones
MaxScansInFlight == 2
\* the same two budgets for the behaviours that follow one wlan_connect()
\* through its automatic reconnections
ReconnectCalls == 1
ReconnectFaults == 2
\* the two budgets for the behaviours that change the profile store during a
\* connection attempt
ProfileCalls == 3
ProfileFaults == 0
\* the two budgets for the behaviours of the profile store on its own
StoreCalls == 3
StoreFaults == 1
\* the budgets and the greatest PSK length for the check of the passphrase
KeyCalls == 1
KeyFaults == 1
KeyMaxLen == 66
\* the greatest length of a profile name given to wlan_add_network
NameMaxLen == 34
\* the two budgets for the behaviours of the micro-AP
UapCalls == 3
UapFaults == 1
\* the two budgets for the behaviours with a driver that rejects scans
RejectCalls == 3
RejectFaults == 0
\* the two budgets for the behaviours of the sleeping firmware
SleepCalls == 3
SleepFaults == 0
\* the two budgets for the behaviours with IEEE power save
PsCalls == 3
PsFaults == 0
\* scan results the driver holds after one scan
MaxResults == 3

Threads == {1, 2}

(***************************************************************************)
(* enum cm_sta_state, in the order of the enum (the code compares them).   *)
(***************************************************************************)
CM_STA_INITIALIZING == 0
CM_STA_IDLE == 1
CM_STA_SCANNING == 2
CM_STA_SCANNING_USER == 3
CM_STA_ASSOCIATING == 4
CM_STA_ASSOCIATED == 5
CM_STA_REQUESTING_ADDRESS == 6
CM_STA_OBTAINING_ADDRESS == 7
CM_STA_CONNECTED == 8

\* enum cm_uap_state
CM_UAP_INITIALIZING == 0
CM_UAP_CONFIGURED == 1
CM_UAP_STARTED == 2
CM_UAP_IP_UP == 3

StaStates == CM_STA_INITIALIZING .. CM_STA_CONNECTED

\* The profiles of the store in this specification: two station profiles
\* (DHCP and static address) and one micro-AP profile.
\* A slot of wlan.networks that holds no profile: all its bytes are zero, which
\* reads as an empty name, the station role and a static address.
\* (WLAN_SECURITY_NONE is the first value of enum wlan_security_type.)
NoNetwork ==
    [name |-> "", role |-> "STA", addr_type |-> "STATIC", ssid |-> "",
     security |-> "NONE", psk_len |-> 0, psk |-> <<>>]

\* A profile without security, as the application fills it in.
OpenNetwork(name, role, addr_type, ssid) ==
    [NoNetwork EXCEPT !.name = name, !.role = role, !.addr_type = addr_type,
                      !.ssid = ssid]

InitNetworks ==
    <<OpenNetwork("home", "STA", "DHCP", "Home"),
      OpenNetwork("lab", "STA", "STATIC", "Lab"),
      OpenNetwork("ap", "UAP", "STATIC", "Ap"),
      NoNetwork, NoNetwork>>

Names == {"home", "lab", "ap"}

VARIABLES
    running,               \* wlan.running
    sta_state,             \* wlan.sta_state
    sta_return_to,         \* wlan.sta_return_to
    sta_ipv4_state,        \* wlan.sta_ipv4_state
    scan_lock,             \* count of the semaphore wlan.scan_lock (1 = free)
    is_scan_lock,          \* wlan.is_scan_lock
    events,                \* the queue wlan.events
    networks,              \* wlan.networks (index 0 .. in C is 1 .. here)
    num_networks,          \* wlan.num_networks
    cur_network_idx,       \* wlan.cur_network_idx (C index, -1 when unused)
    scan_count,            \* wlan.scan_count
    reassoc_count,         \* wlan.reassoc_count
    reassoc_control,       \* wlan.reassoc_control
    reassoc_request,       \* wlan.reassoc_request
    assoc_paused,          \* wlan.assoc_paused
    pending_assoc_request, \* wlan.pending_assoc_request
    roam_reassoc,          \* wlan.roam_reassoc
    hidden_scan_on,        \* wlan.hidden_scan_on
    scan_cb,               \* wlan.scan_cb # NULL
    timer_active,          \* wlan.assoc_timer is running
    drv_scans,             \* driver: scan commands accepted and not yet answered
    drv_link,              \* driver: "down", "assoc_req", "auth_wait", "up"
    net_pending,           \* IP stack: "none", "addr", "dhcp"
    upc,                   \* user threads: position inside the API call
    uarg,                  \* user threads: network index found by wlan_connect
    calls_left,            \* API calls the user threads may still make
    faults_left,           \* failures that may still happen
    cb_log,                \* reasons given to wlan.cb by the last step, in order
    lock_overrun,          \* the last step called os_semaphore_put on the free lock
    gave_up,               \* reconnection was given up and no API call was made since
    assoc_network,         \* the slot and the profile of the last association request
    uap_state,             \* wlan.uap_state
    cur_uap_network_idx,   \* wlan.cur_uap_network_idx (C index, -1 when unused)
    drv_uap,               \* driver: the micro-AP is "down", "start_req", "up" or "stop_req"
    net_uap_pending,       \* IP stack: address configuration of the micro-AP interface pending
    cm_ieeeps_configured,  \* wlan.cm_ieeeps_configured
    ieee_ps_sleep_cb_sent,  \* ieee_ps_sleep_cb_sent (file-scope flag)
    drv_ieeeps,            \* driver: IEEE power save is "off", "on" or "exit_req"
    host_sleep,            \* build: CONFIG_HOST_SLEEP is defined
    wakelock,              \* wakelock_get calls minus wakelock_put calls
    connect_wakelock_taken,  \* wlan.connect_wakelock_taken
    ieeeps_state,          \* wlan.ieeeps_state
    ieeeps_prev_state,     \* wlan.ieeeps_prev_state
    g_req_sl_confirm,      \* g_req_sl_confirm: a sleep confirm is owed to the firmware
    xfer_pending,          \* driver: wifi_get_xfer_pending()
    slp_cfm_sent,          \* the last step called send_sleep_confirm_command
    user_disconnected,     \* a user disconnect was handled; no connect call or request since
    deferred_idx,          \* the index carried by the connect request that the pause deferred, or -1
    scan_results,          \* driver: the scan table read by wifi_get_scan_result
    matching_ap_found,     \* handle_scan_results: local matching_ap_found
    best_ap,               \* handle_scan_results: *best_ap
    sel_pc,                \* handle_scan_results: "idle", "loop" or "chosen"
    unet,                  \* user threads: the profile given to wlan_add_network
    uret                   \* user threads: what the last call on the store returned

wlanVars ==
    <<running, sta_state, sta_return_to, sta_ipv4_state, scan_lock, is_scan_lock,
      events, networks, cur_network_idx, scan_count, reassoc_count,
      reassoc_control, reassoc_request, assoc_paused, pending_assoc_request,
      roam_reassoc, hidden_scan_on, scan_cb, timer_active, drv_scans, drv_link,
      net_pending, cb_log, lock_overrun, gave_up, num_networks, assoc_network,
      uap_state,
      cur_uap_network_idx,
      drv_uap,
      net_uap_pending,
      cm_ieeeps_configured,
      ieee_ps_sleep_cb_sent,
      drv_ieeeps,
      host_sleep,
      wakelock,
      connect_wakelock_taken,
      ieeeps_state,
      ieeeps_prev_state,
      g_req_sl_confirm,
      xfer_pending,
      slp_cfm_sent,
      user_disconnected,
      deferred_idx>>

mgrVars == <<wlanVars, upc, uarg, calls_left, faults_left>>

selVars == <<scan_results, matching_ap_found, best_ap, sel_pc>>

storeCallVars == <<unet, uret>>

vars == <<mgrVars, selVars, storeCallVars>>

\* The state as one record, for the operators that model the C functions.
State ==
    [running |-> running, sta_state |-> sta_state, sta_return_to |-> sta_return_to,
     sta_ipv4_state |-> sta_ipv4_state, scan_lock |-> scan_lock,
     is_scan_lock |-> is_scan_lock, events |-> events, networks |-> networks,
     cur_network_idx |-> cur_network_idx, scan_count |-> scan_count,
     reassoc_count |-> reassoc_count, reassoc_control |-> reassoc_control,
     reassoc_request |-> reassoc_request, assoc_paused |-> assoc_paused,
     pending_assoc_request |-> pending_assoc_request, roam_reassoc |-> roam_reassoc,
     hidden_scan_on |-> hidden_scan_on, scan_cb |-> scan_cb,
     timer_active |-> timer_active, drv_scans |-> drv_scans, drv_link |-> drv_link,
     net_pending |-> net_pending, cb_log |-> <<>>, lock_overrun |-> FALSE,
     gave_up |-> gave_up, num_networks |-> num_networks,
     assoc_network |-> assoc_network,
     uap_state |-> uap_state,
     cur_uap_network_idx |-> cur_uap_network_idx,
     drv_uap |-> drv_uap,
     net_uap_pending |-> net_uap_pending,
     cm_ieeeps_configured |-> cm_ieeeps_configured,
     ieee_ps_sleep_cb_sent |-> ieee_ps_sleep_cb_sent,
     drv_ieeeps |-> drv_ieeeps,
     host_sleep |-> host_sleep,
     wakelock |-> wakelock,
     connect_wakelock_taken |-> connect_wakelock_taken,
     ieeeps_state |-> ieeeps_state,
     ieeeps_prev_state |-> ieeeps_prev_state,
     g_req_sl_confirm |-> g_req_sl_confirm,
     xfer_pending |-> xfer_pending,
     slp_cfm_sent |-> FALSE,
     user_disconnected |-> user_disconnected,
     deferred_idx |-> deferred_idx,
     next |-> sta_state]

CommitWlan(s) ==
    /\ running' = s.running
    /\ sta_state' = s.sta_state
    /\ sta_return_to' = s.sta_return_to
    /\ sta_ipv4_state' = s.sta_ipv4_state
    /\ scan_lock' = s.scan_lock
    /\ is_scan_lock' = s.is_scan_lock
    /\ events' = s.events
    /\ networks' = s.networks
    /\ cur_network_idx' = s.cur_network_idx
    /\ scan_count' = s.scan_count
    /\ reassoc_count' = s.reassoc_count
    /\ reassoc_control' = s.reassoc_control
    /\ reassoc_request' = s.reassoc_request
    /\ assoc_paused' = s.assoc_paused
    /\ pending_assoc_request' = s.pending_assoc_request
    /\ roam_reassoc' = s.roam_reassoc
    /\ hidden_scan_on' = s.hidden_scan_on
    /\ scan_cb' = s.scan_cb
    /\ timer_active' = s.timer_active
    /\ drv_scans' = s.drv_scans
    /\ drv_link' = s.drv_link
    /\ net_pending' = s.net_pending
    /\ cb_log' = s.cb_log
    /\ lock_overrun' = s.lock_overrun
    /\ gave_up' = s.gave_up
    /\ num_networks' = s.num_networks
    /\ assoc_network' = s.assoc_network
    /\ uap_state' = s.uap_state
    /\ cur_uap_network_idx' = s.cur_uap_network_idx
    /\ drv_uap' = s.drv_uap
    /\ net_uap_pending' = s.net_uap_pending
    /\ cm_ieeeps_configured' = s.cm_ieeeps_configured
    /\ ieee_ps_sleep_cb_sent' = s.ieee_ps_sleep_cb_sent
    /\ drv_ieeeps' = s.drv_ieeeps
    /\ host_sleep' = s.host_sleep
    /\ wakelock' = s.wakelock
    /\ connect_wakelock_taken' = s.connect_wakelock_taken
    /\ ieeeps_state' = s.ieeeps_state
    /\ ieeeps_prev_state' = s.ieeeps_prev_state
    /\ g_req_sl_confirm' = s.g_req_sl_confirm
    /\ xfer_pending' = s.xfer_pending
    /\ slp_cfm_sent' = s.slp_cfm_sent
    /\ user_disconnected' = s.user_disconnected
    /\ deferred_idx' = s.deferred_idx

\* A step of the connection manager or of a call that is not on the store.
Commit(s) == CommitWlan(s) /\ UNCHANGED <<selVars, storeCallVars>>


(***************************************************************************)
(* Primitives of the OS layer and of the callback.                         *)
(***************************************************************************)
\* CONNECTION_EVENT(r, data): the user callback is given reason r.
CONNECTION_EVENT(s, r) == [s EXCEPT !.cb_log = Append(@, r)]

\* os_semaphore_put(&wlan.scan_lock): the semaphore is binary, a put on the
\* free semaphore leaves the count at 1.
os_semaphore_put(s) ==
    [s EXCEPT !.scan_lock = 1, !.lock_overrun = (s.scan_lock = 1)]

\* os_semaphore_put(&wlan.scan_lock); wlan.is_scan_lock = 0;
ReleaseScanLock(s) == [os_semaphore_put(s) EXCEPT !.is_scan_lock = FALSE]

Msg(ev, reason, data) == [event |-> ev, reason |-> reason, data |-> data]

\* os_queue_send(&wlan.events, &msg, OS_NO_WAIT) succeeds iff there is room.
QueueHasRoom(s) == Len(s.events) < QueueCap

wlan_wlcmgr_send_msg(s, ev, reason, data) ==
    IF QueueHasRoom(s) THEN [s EXCEPT !.events = Append(@, Msg(ev, reason, data))]
    ELSE s

send_user_request(s, request, data) ==
    IF QueueHasRoom(s)
    THEN [s EXCEPT !.events = Append(@, Msg(request, "SUCCESS", data))]
    ELSE s

\* wifi_deauthenticate(bssid): the driver drops the link.
wifi_deauthenticate(s) == [s EXCEPT !.drv_link = "down"]

\* net_interface_dhcp_stop(); net_interface_down();
net_interface_down(s) == [s EXCEPT !.net_pending = "none"]

is_user_scanning(s) == s.sta_state = CM_STA_SCANNING_USER

is_state(s, state) ==
    IF is_user_scanning(s) THEN s.sta_return_to = state ELSE s.sta_state = state

is_running(s) == s.running /\ s.sta_state >= CM_STA_IDLE

is_scanning_allowed(s) == is_state(s, CM_STA_IDLE) \/ is_state(s, CM_STA_CONNECTED)

is_sta_connected(s) == s.sta_state = CM_STA_CONNECTED

\* wlan.networks[i] for a C index i; an index outside the array has no role.
NetworkAt(s, i) ==
    IF i + 1 \in DOMAIN s.networks THEN s.networks[i + 1]
    ELSE [name |-> "", role |-> "NONE", addr_type |-> "NONE"]

\* wifi_send_scan_cmd returns WM_SUCCESS: the driver accepted the command.
ScanCmdAccepted(s, e) == e.scan_ok /\ s.drv_scans < MaxScansInFlight

(***************************************************************************)
(* Connection manager actions.                                             *)
(***************************************************************************)
\* A do_scan that takes the scan lock itself for the scan it starts; the
\* dispatcher calls do_scan, so C4 must reject it.
do_scan_taking_lock(s, e) ==
    LET s1 == [s EXCEPT !.sta_state = CM_STA_SCANNING, !.scan_lock = 0,
                        !.is_scan_lock = TRUE]
    IN  IF ScanCmdAccepted(s1, e)
        THEN [s1 EXCEPT !.scan_count = @ + 1, !.drv_scans = @ + 1]
        ELSE wlan_wlcmgr_send_msg(s1, "SCAN_RESULT", "FAILURE", 0)

do_scan(s, e) ==
    LET s1 == [s EXCEPT !.sta_state = CM_STA_SCANNING]
    IN  IF ScanCmdAccepted(s1, e)
        THEN [s1 EXCEPT !.scan_count = @ + 1, !.drv_scans = @ + 1]
        ELSE wlan_wlcmgr_send_msg(s1, "SCAN_RESULT", "FAILURE", 0)

do_hidden_scan(s, e) ==
    LET s1 == [s EXCEPT !.sta_state = CM_STA_SCANNING]
    IN  IF ScanCmdAccepted(s1, e)
        THEN [s1 EXCEPT !.drv_scans = @ + 1]
        ELSE wlan_wlcmgr_send_msg(s1, "SCAN_RESULT", "FAILURE", 0)

\* do_connect returns WM_SUCCESS iff the profile is a station profile.
do_connect_ok(s, netindex) == NetworkAt(s, netindex).role = "STA"

do_connect(s, netindex, e) ==
    IF ~do_connect_ok(s, netindex) THEN s
    ELSE do_scan([s EXCEPT !.cur_network_idx = netindex, !.scan_count = 0], e)

\* wakelock_get() and wakelock_put(), compiled in under CONFIG_HOST_SLEEP.
wakelock_get(s) == IF s.host_sleep THEN [s EXCEPT !.wakelock = @ + 1] ELSE s

wakelock_put(s) == IF s.host_sleep THEN [s EXCEPT !.wakelock = @ - 1] ELSE s

\* if (wlan.connect_wakelock_taken) { wakelock_put(); taken = false; }
connect_wakelock_release(s) ==
    IF s.connect_wakelock_taken
    THEN [wakelock_put(s) EXCEPT !.connect_wakelock_taken = FALSE]
    ELSE s

do_connect_failed(s, reason) ==
    LET s0 == IF s.connect_wakelock_taken THEN wakelock_put(s) ELSE s
        s1 == IF s0.sta_state = CM_STA_SCANNING_USER
              THEN [s0 EXCEPT !.sta_return_to = CM_STA_IDLE]
              ELSE s0
    IN  CONNECTION_EVENT([s1 EXCEPT !.sta_state = CM_STA_IDLE], reason)

\* wlan_disconnect(), also called by the dispatcher itself.
wlan_disconnect(s) ==
    IF ~s.running THEN s
    ELSE send_user_request(wakelock_get(s), "CM_STA_USER_REQUEST_DISCONNECT", 0)

\* wlcm_request_connect; alias is TRUE when the caller passed &wlan.sta_state
\* as `next`.
wlcm_request_connect(s, data, e, alias) ==
    LET s0 == IF s.host_sleep
              THEN [wakelock_get(s) EXCEPT !.connect_wakelock_taken = TRUE]
              ELSE s
        s1 == IF ~s0.roam_reassoc /\ s0.sta_state >= CM_STA_ASSOCIATING
                 /\ NetworkAt(s0, data).role = "STA"
              THEN wifi_deauthenticate(s0)
              ELSE s0
        s2 == do_connect(s1, data, e)
        s3 == IF do_connect_ok(s1, data) THEN s2
              ELSE CONNECTION_EVENT(
                       IF s2.is_scan_lock THEN ReleaseScanLock(s2) ELSE s2,
                       "CONNECT_FAILED")
    IN  IF alias THEN s3 ELSE [s3 EXCEPT !.next = s3.sta_state]

\* A wlcm_request_reconnect that does not look at the reconnect limit; C9 must
\* reject it.
wlcm_request_reconnect_unlimited(s, e, alias) ==
    wlcm_request_connect([s EXCEPT !.reassoc_request = TRUE, !.reassoc_count = @ + 1],
                         s.cur_network_idx, e, alias)

wlcm_request_reconnect(s, e, alias) ==
    LET s1 == [s EXCEPT !.reassoc_request = TRUE]
    IN  IF s1.reassoc_count < WLAN_RECONNECT_LIMIT
        THEN wlcm_request_connect([s1 EXCEPT !.reassoc_count = @ + 1],
                                  s1.cur_network_idx, e, alias)
        ELSE wlan_disconnect(
                 CONNECTION_EVENT(
                     [s1 EXCEPT !.reassoc_request = FALSE, !.reassoc_count = 0,
                                !.gave_up = TRUE],
                     "CONNECT_FAILED"))

report_scan_results(s) == [s EXCEPT !.scan_cb = FALSE]

start_association_ok(e) == e.sec_ok /\ e.assoc_ok

start_association(s, e) ==
    LET s1 == [s EXCEPT !.roam_reassoc = FALSE]
    IN  IF ~e.sec_ok THEN do_connect_failed(s1, "NETWORK_NOT_FOUND")
        ELSE IF ~e.assoc_ok THEN do_connect_failed(s1, "NETWORK_NOT_FOUND")
        ELSE [s1 EXCEPT !.drv_link = "assoc_req",
                        !.assoc_network =
                            [idx |-> s1.cur_network_idx,
                             network |-> NetworkAt(s1, s1.cur_network_idx)]]

\* An end of handle_scan_results that allows one scan more than the limit; C8
\* must reject it.
handle_scan_results_tail_one_more(s, e) ==
    IF s.roam_reassoc
    THEN [s EXCEPT !.sta_state = CM_STA_CONNECTED, !.roam_reassoc = FALSE]
    ELSE IF s.scan_count <= WLAN_RESCAN_LIMIT
    THEN do_scan([s EXCEPT !.hidden_scan_on = FALSE], e)
    ELSE do_connect_failed(s, "NETWORK_NOT_FOUND")

\* The end of handle_scan_results, reached when no association was started.
handle_scan_results_tail(s, e) ==
    IF s.roam_reassoc
    THEN [s EXCEPT !.sta_state = CM_STA_CONNECTED, !.roam_reassoc = FALSE]
    ELSE IF s.scan_count < WLAN_RESCAN_LIMIT
    THEN do_scan([s EXCEPT !.hidden_scan_on = FALSE], e)
    ELSE LET s1 == do_connect_failed(s, "NETWORK_NOT_FOUND")
         IN  IF s1.reassoc_control THEN wlcm_request_reconnect(s1, e, TRUE)
             ELSE s1

\* e.match: some scan result matches the profile; e.hidden: some result on a
\* matching channel broadcasts an empty SSID (collected only while
\* hidden_scan_on is false); e.same_bssid: the best AP is the current one.
handle_scan_results(s, e) ==
    IF ~e.alloc_ok THEN s
    ELSE
    LET s1 == [s EXCEPT !.sta_state = CM_STA_ASSOCIATING]
        num_channels == IF ~s.hidden_scan_on /\ e.hidden THEN 1 ELSE 0
    IN  IF e.match
        THEN IF s1.roam_reassoc /\ e.same_bssid
             THEN [s1 EXCEPT !.sta_state = CM_STA_CONNECTED, !.roam_reassoc = FALSE]
             ELSE LET s2 == start_association(s1, e)
                  IN  IF start_association_ok(e) THEN s2
                      ELSE handle_scan_results_tail(s2, e)
        ELSE IF num_channels # 0
        THEN do_hidden_scan([s1 EXCEPT !.hidden_scan_on = TRUE], e)
        ELSE handle_scan_results_tail(s1, e)

(***************************************************************************)
(* Event handlers of the dispatcher.                                       *)
(***************************************************************************)
wlcm_process_scan_result_event(s, msg, e) ==
    IF s.sta_state = CM_STA_SCANNING
    THEN LET s1 == handle_scan_results(s, e)
         IN  ReleaseScanLock([s1 EXCEPT !.next = s1.sta_state])
    ELSE IF s.sta_state = CM_STA_SCANNING_USER
    THEN LET s1 == report_scan_results(s)
         IN  ReleaseScanLock([s1 EXCEPT !.next = s1.sta_return_to])
    ELSE IF s.roam_reassoc /\ s.sta_state = CM_STA_CONNECTED
    THEN LET s1 == handle_scan_results(s, e)
         IN  [s1 EXCEPT !.next = s1.sta_state]
    ELSE ReleaseScanLock(s)

wlcm_process_association_event(s, msg, e) ==
    IF ~is_state(s, CM_STA_ASSOCIATING) THEN s
    ELSE IF msg.reason = "SUCCESS"
    THEN [s EXCEPT !.sta_state = CM_STA_ASSOCIATED, !.next = CM_STA_ASSOCIATED,
                   !.scan_count = 0]
    ELSE IF s.scan_count < WLAN_RESCAN_LIMIT
    THEN [do_scan(s, e) EXCEPT !.next = CM_STA_SCANNING]
    ELSE LET s1 == do_connect_failed(s, "NETWORK_NOT_FOUND")
             s2 == IF s1.reassoc_control THEN wlcm_request_reconnect(s1, e, FALSE)
                   ELSE s1
         IN  [s2 EXCEPT !.next = s2.sta_state]

\* wlan.same_ess is never set in this build, so the same-ESS shortcut of the
\* success branch is absent.
wlcm_process_authentication_event(s, msg, e) ==
    IF  /\ ~is_state(s, CM_STA_ASSOCIATING)
        /\ ~is_state(s, CM_STA_ASSOCIATED)
        /\ ~is_state(s, CM_STA_REQUESTING_ADDRESS)
        /\ ~is_state(s, CM_STA_OBTAINING_ADDRESS)
        /\ ~is_state(s, CM_STA_CONNECTED)
    THEN connect_wakelock_release(s)
    ELSE IF msg.reason = "SUCCESS"
    THEN LET s1 == CONNECTION_EVENT(s, "AUTH_SUCCESS")
         IN  IF ~e.addr_ok
             THEN LET s2 == do_connect_failed(s1, "ADDRESS_FAILED")
                  IN  [s2 EXCEPT !.next = s2.sta_state]
             ELSE [s1 EXCEPT !.next = CM_STA_REQUESTING_ADDRESS,
                             !.sta_ipv4_state = CM_STA_REQUESTING_ADDRESS,
                             !.net_pending = "addr"]
    ELSE LET s1 == IF msg.data = IEEEtypes_REASON_MIC_FAILURE
                   THEN [s EXCEPT !.assoc_paused = TRUE, !.timer_active = TRUE]
                   ELSE s
             s2 == IF is_state(s1, CM_STA_REQUESTING_ADDRESS)
                      \/ is_state(s1, CM_STA_OBTAINING_ADDRESS)
                   THEN net_interface_down(s1)
                   ELSE s1
             s3 == IF is_state(s2, CM_STA_ASSOCIATED) THEN wifi_deauthenticate(s2)
                   ELSE s2
             s4 == [s3 EXCEPT !.sta_state = CM_STA_IDLE, !.next = CM_STA_IDLE,
                              !.sta_ipv4_state = CM_STA_IDLE]
             s5 == do_connect_failed(s4, "NETWORK_AUTH_FAILED")
         IN  IF s5.reassoc_control THEN wlcm_request_reconnect(s5, e, FALSE)
             ELSE s5

wlcm_process_sta_addr_config_event(s, msg, network) ==
    IF ~is_state(s, CM_STA_REQUESTING_ADDRESS) THEN connect_wakelock_release(s)
    ELSE IF msg.reason # "SUCCESS"
    THEN LET s1 == do_connect_failed(s, "ADDRESS_FAILED")
         IN  [s1 EXCEPT !.next = s1.sta_state]
    ELSE IF network.addr_type = "STATIC"
    THEN LET s1 == [connect_wakelock_release(s) EXCEPT
                             !.sta_state = CM_STA_CONNECTED,
                             !.next = CM_STA_CONNECTED,
                             !.sta_ipv4_state = CM_STA_CONNECTED]
             s2 == IF s1.reassoc_control /\ s1.reassoc_request
                   THEN [s1 EXCEPT !.reassoc_count = 0, !.reassoc_request = FALSE]
                   ELSE s1
         IN  CONNECTION_EVENT(s2, "SUCCESS")
    ELSE IF network.addr_type = "DHCP"
    THEN [s EXCEPT !.next = CM_STA_OBTAINING_ADDRESS,
                   !.sta_ipv4_state = CM_STA_OBTAINING_ADDRESS]
    ELSE s

wlcm_process_net_dhcp_config(s, msg, e) ==
    IF s.sta_ipv4_state = CM_STA_OBTAINING_ADDRESS
    THEN IF msg.reason # "SUCCESS"
         THEN LET s1 == do_connect_failed(connect_wakelock_release(s),
                                          "ADDRESS_FAILED")
                  s2 == IF s1.reassoc_control
                        THEN wlcm_request_reconnect(s1, e, FALSE)
                        ELSE s1
              IN  [s2 EXCEPT !.next = s2.sta_state]
         ELSE LET s1 == [connect_wakelock_release(s) EXCEPT
                                  !.sta_state = CM_STA_CONNECTED,
                                  !.next = CM_STA_CONNECTED,
                                  !.sta_ipv4_state = CM_STA_CONNECTED]
                  s2 == IF s1.reassoc_control /\ s1.reassoc_request
                        THEN [s1 EXCEPT !.reassoc_count = 0,
                                        !.reassoc_request = FALSE]
                        ELSE s1
              IN  CONNECTION_EVENT(s2, "SUCCESS")
    ELSE IF msg.reason # "SUCCESS"
    THEN IF s.sta_ipv4_state = CM_STA_CONNECTED
         THEN LET s1 == do_connect_failed(s, "ADDRESS_FAILED")
                  s2 == IF s1.reassoc_control
                        THEN wlcm_request_reconnect(s1, e, FALSE)
                        ELSE s1
              IN  [s2 EXCEPT !.next = s2.sta_state]
         ELSE s
    ELSE CONNECTION_EVENT(s, "ADDRESS_SUCCESS")

\* A wlcm_process_link_loss_event that goes to idle without telling the
\* callback; the report of the lost link must reject it.
wlcm_process_link_loss_event_silent(s, msg, e) ==
    IF is_state(s, CM_STA_IDLE) THEN s
    ELSE
    LET s0 == net_interface_down(s)
        s1 == IF is_state(s0, CM_STA_CONNECTED)
              THEN [s0 EXCEPT !.sta_state = CM_STA_IDLE,
                              !.sta_ipv4_state = CM_STA_IDLE,
                              !.next = CM_STA_IDLE]
              ELSE LET a == do_connect_failed(s0, "NETWORK_NOT_FOUND")
                   IN  [a EXCEPT !.next = a.sta_state]
    IN  IF s1.reassoc_control THEN wlcm_request_reconnect(s1, e, FALSE) ELSE s1

wlcm_process_link_loss_event(s, msg, e) ==
    IF is_state(s, CM_STA_IDLE) THEN s
    ELSE
    LET s0 == net_interface_down(s)
        s1 == IF is_state(s0, CM_STA_CONNECTED)
              THEN LET a == [s0 EXCEPT !.sta_state = CM_STA_IDLE,
                                       !.sta_ipv4_state = CM_STA_IDLE]
                       b == IF msg.data = IEEEtypes_REASON_MIC_FAILURE
                            THEN [wlan_disconnect(a) EXCEPT !.next = CM_STA_IDLE]
                            ELSE a
                       c == CONNECTION_EVENT(b, "LINK_LOST")
                   IN  IF is_user_scanning(c)
                       THEN [c EXCEPT !.sta_return_to = CM_STA_IDLE]
                       ELSE [c EXCEPT !.next = CM_STA_IDLE]
              ELSE LET a == IF msg.data = IEEEtypes_REASON_4WAY_HANDSHK_TIMEOUT
                            THEN do_connect_failed(s0, "NETWORK_AUTH_FAILED")
                            ELSE do_connect_failed(s0, "NETWORK_NOT_FOUND")
                   IN  [a EXCEPT !.next = a.sta_state]
    IN  IF s1.reassoc_control THEN wlcm_request_reconnect(s1, e, FALSE) ELSE s1

wlcm_process_disassoc_event(s, msg, e) ==
    LET s1 == [s EXCEPT !.next = CM_STA_IDLE, !.sta_state = CM_STA_IDLE]
        s2 == IF is_user_scanning(s1) THEN [s1 EXCEPT !.sta_return_to = CM_STA_IDLE]
              ELSE s1
        s3 == do_connect_failed(s2, "NETWORK_AUTH_FAILED")
    IN  IF s3.reassoc_control THEN wlcm_request_reconnect(s3, e, FALSE) ELSE s3

\* The body of wlcm_process_deauthentication_event is empty.
wlcm_process_deauthentication_event(s, msg) == s

wlcm_process_net_if_config_event(s, msg) ==
    IF s.sta_state # CM_STA_INITIALIZING THEN s
    ELSE IF msg.reason # "SUCCESS"
    THEN [CONNECTION_EVENT(s, "INITIALIZATION_FAILED")
             EXCEPT !.next = CM_STA_INITIALIZING]
    ELSE [s EXCEPT !.sta_state = CM_STA_IDLE, !.next = CM_STA_IDLE]

\* msg->data is the copy of the scan parameters made by wlan_scan_with_opt and
\* is never NULL.
\* A wlcm_request_scan that drops the request made in a wrong state without
\* giving the scan lock back; the rejection with the lock released must
\* reject it.
wlcm_request_scan_keeping_lock(s, msg, e) ==
    IF ~is_scanning_allowed(s) THEN s
    ELSE IF ~ScanCmdAccepted(s, e)
    THEN ReleaseScanLock([s EXCEPT !.next = s.sta_state])
    ELSE [s EXCEPT !.scan_cb = TRUE, !.sta_return_to = s.sta_state,
                   !.next = CM_STA_SCANNING_USER, !.drv_scans = @ + 1]

wlcm_request_scan(s, msg, e) ==
    IF ~is_scanning_allowed(s) THEN ReleaseScanLock(s)
    ELSE IF ~ScanCmdAccepted(s, e)
    THEN ReleaseScanLock([s EXCEPT !.next = s.sta_state])
    ELSE [s EXCEPT !.scan_cb = TRUE, !.sta_return_to = s.sta_state,
                   !.next = CM_STA_SCANNING_USER, !.drv_scans = @ + 1]

\* A teardown that releases the scan lock in every branch, the connect scan
\* and the user scan included; C7 must reject it.
disconnect_teardown_releasing(s0) ==
    LET a == IF s0.sta_state >= CM_STA_ASSOCIATING \/ is_user_scanning(s0)
             THEN wifi_deauthenticate(s0) ELSE s0
        b == IF a.is_scan_lock THEN ReleaseScanLock(a) ELSE a
    IN  [b EXCEPT !.sta_state = CM_STA_IDLE, !.sta_return_to = CM_STA_IDLE,
                  !.next = CM_STA_IDLE, !.sta_ipv4_state = CM_STA_IDLE]

\* wifi_set_xfer_pending and wifi_get_xfer_pending keep one flag of the driver.
wifi_set_xfer_pending(s, flag) == [s EXCEPT !.xfer_pending = flag]

\* The branches of wlcm_request_disconnect that tear the connection down,
\* taken when the station is neither initializing nor idle.
disconnect_teardown(s0) ==
    IF is_user_scanning(s0) /\ s0.sta_return_to # CM_STA_IDLE
    THEN IF s0.sta_return_to >= CM_STA_ASSOCIATING
         THEN [wifi_deauthenticate(s0) EXCEPT
                  !.sta_return_to = CM_STA_IDLE, !.next = CM_STA_IDLE,
                  !.sta_ipv4_state = CM_STA_IDLE]
         ELSE s0
    ELSE IF s0.sta_state >= CM_STA_ASSOCIATING
    THEN LET a == wifi_deauthenticate(s0)
             b == IF a.is_scan_lock THEN ReleaseScanLock(a) ELSE a
         IN  [b EXCEPT !.sta_state = CM_STA_IDLE, !.next = CM_STA_IDLE,
                       !.sta_ipv4_state = CM_STA_IDLE]
    ELSE IF s0.sta_state = CM_STA_SCANNING
    THEN [s0 EXCEPT !.sta_state = CM_STA_IDLE, !.next = CM_STA_IDLE,
                    !.sta_ipv4_state = CM_STA_IDLE]
    ELSE s0

\* wlcm_send_host_sleep: wlan_send_host_sleep_int sends the host-sleep
\* configuration to the firmware; it changes no state of this model and
\* holds no wakelock_put.
wlcm_send_host_sleep(s) == s

\* A wlcm_request_disconnect that only takes the interface down; C6 must
\* reject it.
wlcm_request_disconnect_no_effect(s, e) == net_interface_down(s)

\* A wlcm_request_disconnect that sets the counters of a reconnection in
\* progress to zero; the saturation of the counters must reject it.
wlcm_request_disconnect_zeroing(s, e) ==
    LET type_sta == IF s.cur_network_idx = -1 THEN e.oob_sta
                    ELSE NetworkAt(s, s.cur_network_idx).role = "STA"
        s0 == net_interface_down(s)
    IN  IF ~type_sta THEN wakelock_put(s)
        ELSE IF s0.sta_state < CM_STA_IDLE \/ is_state(s0, CM_STA_IDLE)
        THEN wakelock_put(wifi_set_xfer_pending(s0, FALSE))
        ELSE
        LET s1 == disconnect_teardown(s0)
            s2 == CONNECTION_EVENT(s1, "USER_DISCONNECT")
            s3 == IF s2.reassoc_control /\ s2.reassoc_request
                  THEN [s2 EXCEPT !.scan_count = 0, !.reassoc_count = 0,
                                  !.reassoc_request = FALSE]
                  ELSE s2
        IN  wakelock_put(wifi_set_xfer_pending(connect_wakelock_release(s3),
                                               FALSE))

\* curr_nw is &wlan.networks[wlan.cur_network_idx]; with cur_network_idx = -1
\* the read of curr_nw->type is outside the array and e.oob_sta is what it
\* yields.  net_get_mlan_handle() is not NULL once the interface exists.
wlcm_request_disconnect(s, e) ==
    LET type_sta == IF s.cur_network_idx = -1 THEN e.oob_sta
                    ELSE NetworkAt(s, s.cur_network_idx).role = "STA"
        s0 == net_interface_down(s)
    IN  IF ~type_sta THEN wakelock_put(s)
        ELSE IF s0.sta_state < CM_STA_IDLE \/ is_state(s0, CM_STA_IDLE)
        THEN wakelock_put(wifi_set_xfer_pending(s0, FALSE))
        ELSE
        LET s1 == disconnect_teardown(s0)
            s2 == CONNECTION_EVENT(s1, "USER_DISCONNECT")
            s3 == IF s2.reassoc_control /\ s2.reassoc_request
                  THEN [s2 EXCEPT !.scan_count = WLAN_RESCAN_LIMIT,
                                  !.reassoc_count = WLAN_RECONNECT_LIMIT,
                                  !.reassoc_request = FALSE]
                  ELSE s2
        IN  wakelock_put(wifi_set_xfer_pending(connect_wakelock_release(s3),
                                               FALSE))

(***************************************************************************)
(* The micro-AP.  The profiles of this model leave the channel to the      *)
(* firmware (channel_specific is 0), so do_start has no channel to check.  *)
(***************************************************************************)
is_uap_state(s, state) == s.uap_state = state

is_uap_started(s) == is_uap_state(s, CM_UAP_IP_UP)

UapEvents ==
    {"CM_UAP_USER_REQUEST_START", "CM_UAP_USER_REQUEST_STOP", "UAP_STARTED",
     "UAP_STOPPED", "UAP_NET_ADDR_CONFIG"}

is_uap_msg(msg) == msg.event \in UapEvents

\* do_start(network): wifi_uap_start, then wlan.uap_state = CM_UAP_CONFIGURED.
do_start(s, network, e) ==
    IF network.role # "UAP" THEN s
    ELSE IF ~e.uap_ok THEN CONNECTION_EVENT(s, "UAP_START_FAILED")
    ELSE [s EXCEPT !.drv_uap = "start_req", !.uap_state = CM_UAP_CONFIGURED]

\* do_stop(network): wifi_uap_stop, then wlan.uap_state = CM_UAP_INITIALIZING.
do_stop(s, network, e) ==
    IF network.role # "UAP" THEN s
    ELSE IF ~e.uap_stop_ok THEN CONNECTION_EVENT(s, "UAP_STOP_FAILED")
    ELSE [s EXCEPT !.drv_uap = IF @ = "down" THEN "down" ELSE "stop_req",
                   !.uap_state = CM_UAP_INITIALIZING]

\* uap_state_machine(&msg) followed by wlan.uap_state = next_uap_state.
uap_state_machine(s, msg, e) ==
    LET network == NetworkAt(s, s.cur_uap_network_idx)
    IN  CASE msg.event = "CM_UAP_USER_REQUEST_START" ->
               LET s1 == [s EXCEPT !.cur_uap_network_idx = msg.data,
                                   !.scan_count = 0]
               IN  do_start(s1, NetworkAt(s1, msg.data), e)
          [] msg.event = "CM_UAP_USER_REQUEST_STOP" ->
               IF s.uap_state < CM_UAP_CONFIGURED THEN s
               ELSE do_stop(s, network, e)
          [] msg.event = "UAP_STARTED" ->
               IF ~is_uap_state(s, CM_UAP_CONFIGURED) THEN s
               ELSE IF msg.reason # "SUCCESS"
               THEN CONNECTION_EVENT(s, "UAP_START_FAILED")
               ELSE IF ~e.addr_ok THEN CONNECTION_EVENT(s, "ADDRESS_FAILED")
               ELSE [s EXCEPT !.net_uap_pending = TRUE,
                              !.uap_state = CM_UAP_STARTED]
          [] msg.event = "UAP_STOPPED" -> CONNECTION_EVENT(s, "UAP_STOPPED")
          [] msg.event = "UAP_NET_ADDR_CONFIG" ->
               IF ~is_uap_state(s, CM_UAP_STARTED) THEN s
               ELSE IF msg.reason = "SUCCESS" /\ network.addr_type = "STATIC"
               THEN [CONNECTION_EVENT(s, "UAP_SUCCESS") EXCEPT
                         !.uap_state = CM_UAP_IP_UP]
               ELSE [CONNECTION_EVENT(s, "ADDRESS_FAILED") EXCEPT
                         !.uap_state = CM_UAP_INITIALIZING]
          [] OTHER -> s

(***************************************************************************)
(* IEEE power save.  The requests carry the mode WLAN_IEEE; the driver     *)
(* event WIFI_EVENT_IEEE_PS carries the action it reports.                 *)
(***************************************************************************)
\* wlan_enable_power_save(WLAN_IEEE)
wlan_enable_power_save(s) ==
    [s EXCEPT !.cm_ieeeps_configured = TRUE, !.drv_ieeeps = "on"]

\* wlan_disable_power_save(WLAN_IEEE)
wlan_disable_power_save(s) == [s EXCEPT !.drv_ieeeps = "exit_req"]

\* A handler that reports every sleep confirm; the single WLAN_REASON_PS_ENTER
\* of a power-save session must reject it.
wlcm_process_ieeeps_event_every_confirm(s, msg) ==
    IF msg.reason # "SUCCESS" THEN s
    ELSE IF msg.data = "DIS_AUTO_PS"
    THEN CONNECTION_EVENT([s EXCEPT !.cm_ieeeps_configured = FALSE,
                                    !.ieee_ps_sleep_cb_sent = FALSE], "PS_EXIT")
    ELSE IF msg.data = "SLEEP_CONFIRM"
    THEN [CONNECTION_EVENT(s, "PS_ENTER") EXCEPT !.ieee_ps_sleep_cb_sent = TRUE]
    ELSE s

wlcm_process_ieeeps_event(s, msg) ==
    IF msg.reason # "SUCCESS" THEN s
    ELSE IF msg.data = "DIS_AUTO_PS"
    THEN CONNECTION_EVENT([s EXCEPT !.cm_ieeeps_configured = FALSE,
                                    !.ieee_ps_sleep_cb_sent = FALSE], "PS_EXIT")
    ELSE IF msg.data = "SLEEP_CONFIRM"
    THEN IF ~s.ieee_ps_sleep_cb_sent
         THEN [CONNECTION_EVENT(s, "PS_ENTER") EXCEPT !.ieee_ps_sleep_cb_sent = TRUE]
         ELSE s
    ELSE s

IeeepsStates ==
    {"IEEEPS_INIT", "IEEEPS_CONFIGURING", "IEEEPS_AWAKE", "IEEEPS_PRE_SLEEP",
     "IEEEPS_SLEEP", "IEEEPS_PRE_DISABLE", "IEEEPS_DISABLING"}

\* send_sleep_confirm_command: the sleep confirm goes to the firmware.
send_sleep_confirm_command(s) == [s EXCEPT !.slp_cfm_sent = TRUE]

\* wlan_host_sleep_and_sleep_confirm, with wlan.hs_configured false: no host
\* sleep was configured before power save.
wlan_host_sleep_and_sleep_confirm(s) ==
    IF s.xfer_pending
    THEN [s EXCEPT !.g_req_sl_confirm = TRUE]
    ELSE [send_sleep_confirm_command(s) EXCEPT !.g_req_sl_confirm = FALSE]

\* One pass of the switch of wlan_ieeeps_sm: the state after the pass.
ieeeps_switch(s, event) ==
    LET st == s.ieeeps_state
        prev == s.ieeeps_prev_state
    IN  CASE st = "IEEEPS_INIT" ->
               IF event = "IEEEPS_EVENT_ENABLE_DONE" THEN "IEEEPS_CONFIGURING"
               ELSE st
          [] st = "IEEEPS_CONFIGURING" ->
               IF event = "IEEEPS_EVENT_DISABLE" THEN "IEEEPS_DISABLING"
               ELSE IF event = "IEEEPS_EVENT_SLEEP" THEN "IEEEPS_PRE_SLEEP"
               ELSE IF event = "IEEEPS_EVENT_AWAKE" THEN "IEEEPS_AWAKE"
               ELSE st
          [] st = "IEEEPS_AWAKE" ->
               IF event = "IEEEPS_EVENT_DISABLE" THEN "IEEEPS_DISABLING"
               ELSE IF event = "IEEEPS_EVENT_SLEEP" THEN "IEEEPS_PRE_SLEEP"
               ELSE st
          [] st = "IEEEPS_PRE_SLEEP" ->
               IF event = "IEEEPS_EVENT_DISABLE" THEN "IEEEPS_DISABLING"
               ELSE IF event = "IEEEPS_EVENT_SLP_CFM" THEN "IEEEPS_SLEEP"
               ELSE st
          [] st = "IEEEPS_SLEEP" ->
               IF event = "IEEEPS_EVENT_DISABLE"
               THEN IF is_state(s, CM_STA_CONNECTED) THEN "IEEEPS_PRE_DISABLE"
                    ELSE "IEEEPS_DISABLING"
               ELSE IF event = "IEEEPS_EVENT_SLEEP" THEN "IEEEPS_PRE_SLEEP"
               ELSE IF event = "IEEEPS_EVENT_AWAKE" THEN "IEEEPS_AWAKE"
               ELSE st
          [] st = "IEEEPS_PRE_DISABLE" ->
               IF event = "IEEEPS_EVENT_ENTER" THEN "IEEEPS_DISABLING" ELSE st
          [] st = "IEEEPS_DISABLING" ->
               IF event = "IEEEPS_EVENT_DISABLE_DONE" THEN "IEEEPS_INIT" ELSE st
          [] OTHER -> st

\* What one pass of the switch does besides choosing the next state.
ieeeps_effects(s, event) ==
    LET st == s.ieeeps_state
        prev == s.ieeeps_prev_state
    IN  CASE st = "IEEEPS_INIT" /\ event = "IEEEPS_EVENT_ENABLE" ->
               [s EXCEPT !.drv_ieeeps = "on"]
          [] st = "IEEEPS_PRE_SLEEP"
             /\ event \in {"IEEEPS_EVENT_ENTER", "IEEEPS_EVENT_SLEEP"} ->
               wlan_host_sleep_and_sleep_confirm(s)
          [] st = "IEEEPS_PRE_SLEEP" /\ event = "IEEEPS_EVENT_DISABLE" ->
               [s EXCEPT !.g_req_sl_confirm = FALSE]
          [] st = "IEEEPS_SLEEP" /\ event = "IEEEPS_EVENT_ENTER" ->
               [s EXCEPT !.g_req_sl_confirm = FALSE]
          [] st = "IEEEPS_DISABLING"
             /\ \/ /\ prev \in {"IEEEPS_CONFIGURING", "IEEEPS_AWAKE",
                                "IEEEPS_SLEEP", "IEEEPS_PRE_DISABLE"}
                   /\ event = "IEEEPS_EVENT_ENTER"
                \/ prev = "IEEEPS_PRE_SLEEP" /\ event = "IEEEPS_EVENT_AWAKE" ->
               [s EXCEPT !.drv_ieeeps = "exit_req"]
          [] OTHER -> s

\* wlan_ieeeps_sm: the switch runs again with IEEEPS_EVENT_ENTER after every
\* change of state.
RECURSIVE wlan_ieeeps_sm(_, _)
wlan_ieeeps_sm(s, event) ==
    LET next_state == ieeeps_switch(s, event)
        s1 == ieeeps_effects(s, event)
    IN  IF s.ieeeps_state # next_state
        THEN wlan_ieeeps_sm([s1 EXCEPT !.ieeeps_prev_state = s.ieeeps_state,
                                       !.ieeeps_state = next_state],
                            "IEEEPS_EVENT_ENTER")
        ELSE s1

\* wlcm_process_awake_event (the deep-sleep machine is not modelled).
wlcm_process_awake_event(s) == wlan_ieeeps_sm(s, "IEEEPS_EVENT_AWAKE")

\* cm_main when os_queue_recv times out.  It waits DELAYED_SLP_CFM_DUR only
\* while g_req_sl_confirm is set, and for ever otherwise.
cm_main_timeout(s) ==
    IF ~is_state(s, CM_STA_CONNECTED) THEN s
    ELSE IF s.g_req_sl_confirm THEN wlan_ieeeps_sm(s, "IEEEPS_EVENT_SLEEP")
    ELSE s

handle_message(s, msg, e) ==
    LET network == NetworkAt(s, s.cur_network_idx)
    IN  CASE msg.event = "CM_STA_USER_REQUEST_CONNECT" ->
               LET s1 == [s EXCEPT !.pending_assoc_request = FALSE,
                                   !.user_disconnected = FALSE,
                                   !.deferred_idx = -1]
               IN  IF ~s1.assoc_paused
                   THEN wlcm_request_connect(s1, msg.data, e, FALSE)
                   ELSE [s1 EXCEPT !.pending_assoc_request = TRUE,
                                   !.deferred_idx = msg.data]
          [] msg.event = "CM_STA_USER_REQUEST_DISCONNECT" ->
               [wlcm_request_disconnect(s, e) EXCEPT !.user_disconnected = TRUE]
          [] msg.event = "CM_STA_USER_REQUEST_SCAN" -> wlcm_request_scan(s, msg, e)
          [] msg.event = "SCAN_RESULT" -> wlcm_process_scan_result_event(s, msg, e)
          [] msg.event = "ASSOCIATION" -> wlcm_process_association_event(s, msg, e)
          [] msg.event = "AUTHENTICATION" ->
               wlcm_process_authentication_event(s, msg, e)
          [] msg.event = "LINK_LOSS" -> wlcm_process_link_loss_event(s, msg, e)
          [] msg.event = "DISASSOCIATION" -> wlcm_process_disassoc_event(s, msg, e)
          [] msg.event = "DEAUTHENTICATION" ->
               wlcm_process_deauthentication_event(s, msg)
          [] msg.event = "NET_STA_ADDR_CONFIG" ->
               wlcm_process_sta_addr_config_event(s, msg, network)
          [] msg.event = "NET_INTERFACE_CONFIG" ->
               wlcm_process_net_if_config_event(s, msg)
          [] msg.event = "NET_DHCP_CONFIG" -> wlcm_process_net_dhcp_config(s, msg, e)
          [] msg.event = "CM_STA_USER_REQUEST_HS" -> wlcm_send_host_sleep(s)
          [] msg.event = "CM_STA_USER_REQUEST_PS_ENTER" ->
               IF s.sta_state >= CM_STA_SCANNING
                  /\ s.sta_state <= CM_STA_OBTAINING_ADDRESS
               THEN s
               ELSE wlan_enable_power_save(s)
          [] msg.event = "CM_STA_USER_REQUEST_PS_EXIT" -> wlan_disable_power_save(s)
          [] msg.event = "IEEE_PS" -> wlcm_process_ieeeps_event(s, msg)
          [] msg.event = "SLEEP" -> send_sleep_confirm_command(s)
          [] msg.event = "AWAKE" -> wlcm_process_awake_event(s)
          [] OTHER -> s

\* One iteration of cm_main's loop that received a message:
\* next_sta_state = handle_message(&msg); wlan.sta_state = next_sta_state.
cm_main(s, e) ==
    LET msg == Head(s.events)
        s1 == handle_message([s EXCEPT !.events = Tail(@), !.next = s.sta_state],
                             msg, e)
    IN  IF is_uap_msg(msg)
        THEN uap_state_machine([s EXCEPT !.events = Tail(@)], msg, e)
        ELSE [s1 EXCEPT !.sta_state = s1.next]

\* assoc_timer_cb, run by the timer task when the 60 s pause expires.
assoc_timer_cb(s) ==
    LET s1 == [s EXCEPT !.assoc_paused = FALSE, !.timer_active = FALSE]
    IN  IF s1.pending_assoc_request
        THEN send_user_request(s1, "CM_STA_USER_REQUEST_CONNECT", 0)
        ELSE s1

(***************************************************************************)
(* What a dispatcher iteration may meet outside the connection manager:    *)
(* scan_ok    wifi_send_scan_cmd returns WM_SUCCESS                        *)
(* alloc_ok   os_mem_alloc in handle_scan_results succeeds                 *)
(* match      a scan result matches the profile being connected            *)
(* hidden     a result on the profile's channel hides its SSID             *)
(* same_bssid the best AP is the one the station is associated with        *)
(* sec_ok     configure_security succeeds                                  *)
(* assoc_ok   wrapper_wifi_assoc returns WM_SUCCESS                        *)
(* addr_ok    net_configure_address returns 0                              *)
(* oob_sta    wlan.networks[-1].type reads as WLAN_BSS_TYPE_STA            *)
(* uap_ok     wifi_uap_start returns WM_SUCCESS                            *)
(* uap_stop_ok wifi_uap_stop returns 0                                     *)
(***************************************************************************)
AllOk ==
    [scan_ok |-> TRUE, alloc_ok |-> TRUE, match |-> TRUE, hidden |-> FALSE,
     same_bssid |-> FALSE, sec_ok |-> TRUE, assoc_ok |-> TRUE, addr_ok |-> TRUE,
     oob_sta |-> TRUE, uap_ok |-> TRUE, uap_stop_ok |-> TRUE]

\* The outcomes that the handler of event ev can tell apart.
EnvsFor(ev) ==
    CASE ev = "SCAN_RESULT" ->
           {[AllOk EXCEPT !.alloc_ok = FALSE]}
           \cup {[AllOk EXCEPT !.same_bssid = b, !.sec_ok = c[1], !.assoc_ok = c[2],
                               !.scan_ok = d] :
                    b \in BOOLEAN, d \in BOOLEAN,
                    c \in {<<TRUE, TRUE>>, <<FALSE, TRUE>>, <<TRUE, FALSE>>}}
           \cup {[AllOk EXCEPT !.match = FALSE, !.hidden = b, !.scan_ok = d] :
                    b \in BOOLEAN, d \in BOOLEAN}
      [] ev = "AUTHENTICATION" ->
           {[AllOk EXCEPT !.addr_ok = b, !.scan_ok = d] : b \in BOOLEAN, d \in BOOLEAN}
      [] ev = "CM_STA_USER_REQUEST_DISCONNECT" ->
           {[AllOk EXCEPT !.oob_sta = b] : b \in BOOLEAN}
      [] ev = "CM_UAP_USER_REQUEST_START" ->
           {[AllOk EXCEPT !.uap_ok = b] : b \in BOOLEAN}
      [] ev = "CM_UAP_USER_REQUEST_STOP" ->
           {[AllOk EXCEPT !.uap_stop_ok = b] : b \in BOOLEAN}
      [] ev = "UAP_STARTED" -> {[AllOk EXCEPT !.addr_ok = b] : b \in BOOLEAN}
      [] ev \in {"UAP_STOPPED", "UAP_NET_ADDR_CONFIG", "IEEE_PS",
                 "CM_STA_USER_REQUEST_HS", "DEAUTHENTICATION", "SLEEP", "AWAKE",
                 "CM_STA_USER_REQUEST_PS_ENTER", "CM_STA_USER_REQUEST_PS_EXIT"} ->
           {AllOk}
      [] OTHER -> {[AllOk EXCEPT !.scan_ok = d] : d \in BOOLEAN}

(***************************************************************************)
(* The dispatcher thread.                                                  *)
(***************************************************************************)
\* The outcome e with its failures taken out.
Nominal(e) ==
    [e EXCEPT !.scan_ok = TRUE, !.alloc_ok = TRUE, !.sec_ok = TRUE,
              !.assoc_ok = TRUE, !.addr_ok = TRUE, !.uap_ok = TRUE,
              !.uap_stop_ok = TRUE]

\* The iteration met a failure: the outcome e has one and it made a difference.
Faulty(s, e) == cm_main(s, e) # cm_main(s, Nominal(e))

FaultAllowed == faults_left > 0

\* The state as an iteration of the dispatcher finds it: a request of a user
\* that it is about to handle ends the time since reconnection was given up.
AtDispatch ==
    [State EXCEPT !.gave_up =
        @ /\ Head(events).event \notin {"CM_STA_USER_REQUEST_CONNECT",
                                         "CM_STA_USER_REQUEST_SCAN"}]

Dispatch ==
    /\ events # <<>>
    /\ \E e \in EnvsFor(Head(events).event) :
           /\ e = Nominal(e) \/ (FaultAllowed /\ Faulty(AtDispatch, e))
           /\ Commit(cm_main(AtDispatch, e))
           /\ faults_left' = IF e = Nominal(e) THEN faults_left ELSE faults_left - 1
    /\ UNCHANGED <<upc, uarg, calls_left>>

(***************************************************************************)
(* The timer task.                                                         *)
(***************************************************************************)
AssocTimerExpires ==
    /\ timer_active
    /\ Commit(assoc_timer_cb(State))
    /\ UNCHANGED <<upc, uarg, calls_left, faults_left>>

(***************************************************************************)
(* User threads.  A call that takes the scan lock is three steps: the      *)
(* checks before os_semaphore_get, os_semaphore_get itself (which blocks   *)
(* while the count is 0), and the rest of the function.                    *)
(***************************************************************************)
CallAllowed(t) == upc[t] = "idle" /\ calls_left > 0

\* The state as an API call finds it.
AtCall == [State EXCEPT !.gave_up = FALSE]

\* The state as a step of wlan_connect or wlan_reassociate finds it: the call
\* ends the time since the last user disconnect.
AtConnect == [AtCall EXCEPT !.user_disconnected = FALSE]

\* The same for the last step of the call, which sends the request.
InConnect == [State EXCEPT !.user_disconnected = FALSE]

\* The index i of wlan_connect's loop for which the name matches, or -1.
FindNetwork(s, name) ==
    LET found == {i \in DOMAIN s.networks :
                     s.networks[i].name # "" /\ s.networks[i].name = name}
    IN  IF found # {}
        THEN (CHOOSE i \in found : \A j \in found : i <= j) - 1
        ELSE -1

wlan_connect_begin(t, name) ==
    /\ CallAllowed(t)
    /\ calls_left' = calls_left - 1
    /\ IF ~running \/ num_networks = 0 \/ name = ""
       THEN /\ Commit(AtConnect)
            /\ UNCHANGED <<upc, uarg>>
       ELSE /\ Commit([AtConnect EXCEPT !.roam_reassoc = FALSE])
            /\ IF FindNetwork(State, name) # -1
               THEN /\ upc' = [upc EXCEPT ![t] = "connect_get"]
                    /\ uarg' = [uarg EXCEPT ![t] = FindNetwork(State, name)]
               ELSE UNCHANGED <<upc, uarg>>
    /\ UNCHANGED faults_left

wlan_connect_get(t) ==
    /\ upc[t] = "connect_get"
    /\ scan_lock = 1
    /\ Commit([State EXCEPT !.scan_lock = 0])
    /\ upc' = [upc EXCEPT ![t] = "connect_send"]
    /\ UNCHANGED <<uarg, calls_left, faults_left>>

wlan_connect_send(t) ==
    /\ upc[t] = "connect_send"
    /\ Commit(send_user_request(
                  [InConnect EXCEPT !.is_scan_lock = TRUE, !.reassoc_count = 0],
                  "CM_STA_USER_REQUEST_CONNECT", uarg[t]))
    /\ upc' = [upc EXCEPT ![t] = "idle"]
    /\ uarg' = [uarg EXCEPT ![t] = -1]
    /\ UNCHANGED <<calls_left, faults_left>>

wlan_reassociate_begin(t) ==
    /\ CallAllowed(t)
    /\ calls_left' = calls_left - 1
    /\ Commit(AtConnect)
    /\ IF ~running \/ num_networks = 0 \/ ~is_sta_connected(State)
       THEN UNCHANGED upc
       ELSE upc' = [upc EXCEPT ![t] = "reassoc_get"]
    /\ UNCHANGED <<uarg, faults_left>>

wlan_reassociate_get(t) ==
    /\ upc[t] = "reassoc_get"
    /\ scan_lock = 1
    /\ Commit([State EXCEPT !.scan_lock = 0])
    /\ upc' = [upc EXCEPT ![t] = "reassoc_send"]
    /\ UNCHANGED <<uarg, calls_left, faults_left>>

wlan_reassociate_send(t) ==
    /\ upc[t] = "reassoc_send"
    /\ LET s1 == [InConnect EXCEPT !.is_scan_lock = TRUE, !.roam_reassoc = TRUE]
       IN  IF QueueHasRoom(s1)
           THEN Commit(send_user_request(s1, "CM_STA_USER_REQUEST_CONNECT",
                                         s1.cur_network_idx))
           ELSE Commit(ReleaseScanLock([s1 EXCEPT !.roam_reassoc = FALSE]))
    /\ upc' = [upc EXCEPT ![t] = "idle"]
    /\ UNCHANGED <<uarg, calls_left, faults_left>>

\* The scan callback given by the user is never NULL, and os_mem_calloc of
\* the parameter copy succeeds.
wlan_scan_with_opt_begin(t) ==
    /\ CallAllowed(t)
    /\ calls_left' = calls_left - 1
    /\ Commit(AtCall)
    /\ IF ~is_running(State) \/ ~is_scanning_allowed(State)
       THEN UNCHANGED upc
       ELSE upc' = [upc EXCEPT ![t] = "scan_get"]
    /\ UNCHANGED <<uarg, faults_left>>

wlan_scan_with_opt_get(t) ==
    /\ upc[t] = "scan_get"
    /\ scan_lock = 1
    /\ Commit([State EXCEPT !.scan_lock = 0])
    /\ upc' = [upc EXCEPT ![t] = "scan_send"]
    /\ UNCHANGED <<uarg, calls_left, faults_left>>

wlan_scan_with_opt_send(t) ==
    /\ upc[t] = "scan_send"
    /\ Commit(send_user_request([State EXCEPT !.is_scan_lock = TRUE],
                                "CM_STA_USER_REQUEST_SCAN", 1))
    /\ upc' = [upc EXCEPT ![t] = "idle"]
    /\ UNCHANGED <<uarg, calls_left, faults_left>>

\* wlan_disconnect() called by a user thread.
wlan_disconnect_call(t) ==
    /\ CallAllowed(t)
    /\ calls_left' = calls_left - 1
    /\ Commit(wlan_disconnect(AtCall))
    /\ UNCHANGED <<upc, uarg, faults_left>>

\* wlan_send_host_sleep() called by a user thread; the result of
\* send_user_request is dropped.
wlan_send_host_sleep(t) ==
    /\ CallAllowed(t)
    /\ calls_left' = calls_left - 1
    /\ LET s == AtCall
       IN  Commit(IF ~s.running THEN s
                  ELSE send_user_request(wakelock_get(s),
                                         "CM_STA_USER_REQUEST_HS", 0))
    /\ UNCHANGED <<upc, uarg, faults_left>>

wlan_set_reassoc_control(t, b) ==
    /\ CallAllowed(t)
    /\ b # reassoc_control
    /\ calls_left' = calls_left - 1
    /\ Commit([AtCall EXCEPT !.reassoc_control = b])
    /\ UNCHANGED <<upc, uarg, faults_left>>

(***************************************************************************)
(* The profile store: wlan_add_network, wlan_remove_network,               *)
(* wlan_get_network_count and wlan_get_network.  No lock protects          *)
(* wlan.networks, so wlan_add_network is two steps: the checks with the    *)
(* search for a free slot, and the copy into the slot found.               *)
(***************************************************************************)
HexChars ==
    {"0", "1", "2", "3", "4", "5", "6", "7", "8", "9",
     "a", "b", "c", "d", "e", "f", "A", "B", "C", "D", "E", "F"}

\* for (i = 0; i < len; ++i): FALSE at the first character that is no
\* hexadecimal digit.
isHexNumber(str, len) == \A k \in 1 .. len : str[k] \in HexChars

\* An is_key_valid that takes a passphrase of WLAN_PSK_MAX_LENGTH - 1
\* characters as it takes the shorter ones; the check of the hexadecimal
\* digits must reject it.
wlan_is_key_valid_any_64(network) ==
    CASE network.security \in {"WPA", "WPA2", "WPA_WPA2_MIXED", "WPA2_SHA256"} ->
           ~(network.psk_len < WLAN_PSK_MIN_LENGTH
             \/ network.psk_len >= WLAN_PSK_MAX_LENGTH)
      [] network.security \in {"NONE", "WILDCARD"} -> TRUE
      [] OTHER -> FALSE

\* The cases of the switch for the security types of this model; WEP and
\* unknown types are not valid.
wlan_is_key_valid(network) ==
    CASE network.security \in {"WPA", "WPA2", "WPA_WPA2_MIXED", "WPA2_SHA256"} ->
           IF network.psk_len < WLAN_PSK_MIN_LENGTH
              \/ network.psk_len >= WLAN_PSK_MAX_LENGTH
           THEN FALSE
           ELSE IF network.psk_len = WLAN_PSK_MAX_LENGTH - 1
                   /\ ~isHexNumber(network.psk, network.psk_len)
           THEN FALSE
           ELSE TRUE
      [] network.security \in {"NONE", "WILDCARD"} -> TRUE
      [] OTHER -> FALSE

\* The checks of wlan_add_network before the search: "OK" or the error.
add_network_check(s, network) ==
    IF network.role = "STA" /\ is_running(s) /\ ~is_state(s, CM_STA_IDLE)
       /\ ~is_state(s, CM_STA_ASSOCIATED) /\ ~is_state(s, CM_STA_CONNECTED)
    THEN "WLAN_ERROR_STATE"
    ELSE IF Len(network.name) < WLAN_NETWORK_NAME_MIN_LENGTH
            \/ Len(network.name) >= WLAN_NETWORK_NAME_MAX_LENGTH
    THEN "WM_E_INVAL"
    ELSE IF network.ssid = "" THEN "WM_E_INVAL"
    ELSE IF ~wlan_is_key_valid(network) THEN "WM_E_INVAL"
    ELSE "OK"

FreeSlots(s) == {k \in DOMAIN s.networks : s.networks[k].name = ""}

\* A search that takes the last slot when none is free; the full store must
\* reject it.
add_network_find_overwriting(s, network) ==
    IF \E k \in DOMAIN s.networks : s.networks[k].name = network.name
    THEN [ret |-> "WM_E_INVAL", pos |-> -1]
    ELSE IF FreeSlots(s) = {} THEN [ret |-> "OK", pos |-> Len(s.networks) - 1]
    ELSE [ret |-> "OK",
          pos |-> (CHOOSE k \in FreeSlots(s) : \A j \in FreeSlots(s) : k <= j) - 1]

\* The loop over wlan.networks: a duplicate name is an error, pos is the
\* first free slot.
add_network_find(s, network) ==
    IF \E k \in DOMAIN s.networks : s.networks[k].name = network.name
    THEN [ret |-> "WM_E_INVAL", pos |-> -1]
    ELSE IF FreeSlots(s) = {} THEN [ret |-> "WM_E_NOMEM", pos |-> -1]
    ELSE [ret |-> "OK",
          pos |-> (CHOOSE k \in FreeSlots(s) : \A j \in FreeSlots(s) : k <= j) - 1]

\* wifi_send_clear_wpa_psk is sent for a station profile with a key.
NeedsClearPsk(network) ==
    network.role = "STA" /\ network.security \notin {"NONE", "WEP_OPEN"}

\* What a call on the store returned to thread t.
Returned(t, call, name, ret) ==
    uret' = [uret EXCEPT ![t] = [call |-> call, name |-> name, ret |-> ret]]

wlan_add_network_find(t, network) ==
    /\ CallAllowed(t)
    /\ calls_left' = calls_left - 1
    /\ CommitWlan(AtCall)
    /\ LET chk == add_network_check(State, network)
           fnd == add_network_find(State, network)
       IN  IF chk # "OK"
           THEN /\ Returned(t, "add", network.name, chk)
                /\ UNCHANGED <<upc, uarg, unet>>
           ELSE IF fnd.ret # "OK"
           THEN /\ Returned(t, "add", network.name, fnd.ret)
                /\ UNCHANGED <<upc, uarg, unet>>
           ELSE /\ upc' = [upc EXCEPT ![t] = "add_store"]
                /\ uarg' = [uarg EXCEPT ![t] = fnd.pos]
                /\ unet' = [unet EXCEPT ![t] = network]
                /\ UNCHANGED uret
    /\ UNCHANGED <<faults_left, selVars>>

\* memcpy into wlan.networks[pos], then wifi_send_clear_wpa_psk, whose
\* failure (clear_ok false) returns before wlan.num_networks++.
add_network_store(s, pos, network, clear_ok) ==
    LET s1 == [s EXCEPT !.networks[pos + 1] = network]
    IN  IF NeedsClearPsk(network) /\ ~clear_ok
        THEN [ret |-> "WLAN_ERROR_ACTION", wlan |-> s1]
        ELSE [ret |-> "WM_SUCCESS",
              wlan |-> [s1 EXCEPT !.num_networks =
                                      IF @ = UINT_MAX THEN 0 ELSE @ + 1]]

wlan_add_network_store(t) ==
    /\ upc[t] = "add_store"
    /\ \E clear_ok \in BOOLEAN :
           LET r == add_network_store(State, uarg[t], unet[t], clear_ok)
           IN  /\ clear_ok \/ (FaultAllowed /\ NeedsClearPsk(unet[t]))
               /\ CommitWlan(r.wlan)
               /\ Returned(t, "add", unet[t].name, r.ret)
               /\ faults_left' = IF clear_ok THEN faults_left ELSE faults_left - 1
    /\ upc' = [upc EXCEPT ![t] = "idle"]
    /\ uarg' = [uarg EXCEPT ![t] = -1]
    /\ unet' = [unet EXCEPT ![t] = NoNetwork]
    /\ UNCHANGED <<calls_left, selVars>>

\* wlan_remove_network(name): "WM_SUCCESS" with the slot cleared, or the error.
remove_network(s, name) ==
    LET i == FindNetwork(s, name)
    IN  IF ~is_running(s) THEN [ret |-> "WLAN_ERROR_STATE", wlan |-> s]
        ELSE IF i = -1 THEN [ret |-> "WM_E_INVAL", wlan |-> s]
        ELSE IF s.running /\ s.cur_network_idx = i /\ is_state(s, CM_STA_CONNECTED)
        THEN [ret |-> "WLAN_ERROR_STATE", wlan |-> s]
        ELSE IF s.cur_uap_network_idx = i /\ is_uap_state(s, CM_UAP_IP_UP)
        THEN [ret |-> "WLAN_ERROR_STATE", wlan |-> s]
        ELSE [ret |-> "WM_SUCCESS",
              wlan |-> [s EXCEPT !.networks[i + 1] = NoNetwork,
                                 !.num_networks =
                                     IF @ = 0 THEN UINT_MAX ELSE @ - 1]]

wlan_remove_network(t, name) ==
    /\ CallAllowed(t)
    /\ calls_left' = calls_left - 1
    /\ LET r == remove_network(AtCall, name)
       IN  /\ CommitWlan(r.wlan)
           /\ Returned(t, "remove", name, r.ret)
    /\ UNCHANGED <<upc, uarg, unet, faults_left, selVars>>

\* The index i of the loops of wlan_start_network and wlan_stop_network: the
\* first profile of that name that is a micro-AP with an SSID, or -1.
FindUapNetwork(s, name) ==
    LET found == {i \in DOMAIN s.networks :
                     /\ s.networks[i].name # "" /\ s.networks[i].name = name
                     /\ s.networks[i].role = "UAP" /\ s.networks[i].ssid # ""}
    IN  IF found # {}
        THEN (CHOOSE i \in found : \A j \in found : i <= j) - 1
        ELSE -1

\* The return value of send_user_request.
SendResult(s) == IF QueueHasRoom(s) THEN "WM_SUCCESS" ELSE "WM_FAIL"

wlan_start_network(t, name) ==
    /\ CallAllowed(t)
    /\ calls_left' = calls_left - 1
    /\ LET s == AtCall
           i == FindUapNetwork(s, name)
       IN  IF name = "" \/ s.num_networks = 0
           THEN CommitWlan(s) /\ Returned(t, "start", name, "WM_E_INVAL")
           ELSE IF is_uap_started(s)
           THEN CommitWlan(s) /\ Returned(t, "start", name, "WLAN_ERROR_STATE")
           ELSE IF i = -1
           THEN CommitWlan(s) /\ Returned(t, "start", name, "WM_E_INVAL")
           ELSE /\ CommitWlan(send_user_request(s, "CM_UAP_USER_REQUEST_START", i))
                /\ Returned(t, "start", name, SendResult(s))
    /\ UNCHANGED <<upc, uarg, unet, faults_left, selVars>>

wlan_stop_network(t, name) ==
    /\ CallAllowed(t)
    /\ calls_left' = calls_left - 1
    /\ LET s == AtCall
           i == FindUapNetwork(s, name)
       IN  IF name = "" \/ s.num_networks = 0 \/ i = -1
           THEN CommitWlan(s) /\ Returned(t, "stop", name, "WM_E_INVAL")
           ELSE /\ CommitWlan(send_user_request(
                                 [s EXCEPT !.net_uap_pending = FALSE],
                                 "CM_UAP_USER_REQUEST_STOP", i))
                /\ Returned(t, "stop", name, SendResult(s))
    /\ UNCHANGED <<upc, uarg, unet, faults_left, selVars>>

\* wlan_get_uap_connection_state: the error, or the state it stores.
wlan_get_uap_connection_state(s) ==
    IF ~is_running(s) THEN "WLAN_ERROR_STATE"
    ELSE IF s.uap_state \in {CM_UAP_STARTED, CM_UAP_IP_UP} THEN "WLAN_UAP_STARTED"
    ELSE "WLAN_UAP_STOPPED"

wlan_ieeeps_on(t) ==
    /\ CallAllowed(t)
    /\ calls_left' = calls_left - 1
    /\ LET s == AtCall
       IN  IF ~s.running \/ wlan_get_uap_connection_state(s) = "WLAN_ERROR_STATE"
           THEN CommitWlan(s) /\ Returned(t, "ieeeps_on", "", "WLAN_ERROR_STATE")
           ELSE IF wlan_get_uap_connection_state(s) = "WLAN_UAP_STARTED"
           THEN CommitWlan(s) /\ Returned(t, "ieeeps_on", "", "WLAN_ERROR_PS_ACTION")
           ELSE IF s.cm_ieeeps_configured
           THEN CommitWlan(s) /\ Returned(t, "ieeeps_on", "", "WLAN_ERROR_STATE")
           ELSE /\ CommitWlan(send_user_request(s, "CM_STA_USER_REQUEST_PS_ENTER",
                                                "WLAN_IEEE"))
                /\ Returned(t, "ieeeps_on", "", SendResult(s))
    /\ UNCHANGED <<upc, uarg, unet, faults_left, selVars>>

wlan_ieeeps_off(t) ==
    /\ CallAllowed(t)
    /\ calls_left' = calls_left - 1
    /\ LET s == AtCall
       IN  IF s.cm_ieeeps_configured
           THEN /\ CommitWlan(send_user_request(s, "CM_STA_USER_REQUEST_PS_EXIT",
                                                "WLAN_IEEE"))
                /\ Returned(t, "ieeeps_off", "", SendResult(s))
           ELSE CommitWlan(s) /\ Returned(t, "ieeeps_off", "", "WLAN_ERROR_STATE")
    /\ UNCHANGED <<upc, uarg, unet, faults_left, selVars>>

wlan_get_network_count(s) == s.num_networks

\* wlan_get_network(index, network): pos counts the slots, free ones too, so
\* the profile returned is the one in slot index.
wlan_get_network(s, index) ==
    IF index > WLAN_MAX_KNOWN_NETWORKS THEN [ret |-> "WM_E_INVAL", network |-> NoNetwork]
    ELSE IF index + 1 \in DOMAIN s.networks /\ s.networks[index + 1].name # ""
    THEN [ret |-> "WM_SUCCESS", network |-> s.networks[index + 1]]
    ELSE [ret |-> "WM_E_INVAL", network |-> NoNetwork]

(***************************************************************************)
(* The Wi-Fi driver and the IP stack, as far as the connection manager     *)
(* sees them: they answer the commands they were given with one event each *)
(* and report a lost link.  An event is posted when the queue has room;    *)
(* a DHCP lease is obtained over a link that is up.                        *)
(***************************************************************************)
PostEvent(s, ev, reason, data) == wlan_wlcmgr_send_msg(s, ev, reason, data)

\* The firmware answers wifi_uap_start.
DrvUapStarted ==
    /\ drv_uap = "start_req"
    /\ QueueHasRoom(State)
    /\ \E ok \in BOOLEAN :
           /\ ok \/ FaultAllowed
           /\ Commit([PostEvent(State, "UAP_STARTED",
                                 IF ok THEN "SUCCESS" ELSE "FAILURE", 0)
                          EXCEPT !.drv_uap = IF ok THEN "up" ELSE "down"])
           /\ faults_left' = IF ok THEN faults_left ELSE faults_left - 1
    /\ UNCHANGED <<upc, uarg, calls_left>>

\* The firmware answers wifi_uap_stop.
DrvUapStopped ==
    /\ drv_uap = "stop_req"
    /\ QueueHasRoom(State)
    /\ Commit([PostEvent(State, "UAP_STOPPED", "SUCCESS", 0) EXCEPT
                   !.drv_uap = "down"])
    /\ UNCHANGED <<upc, uarg, calls_left, faults_left>>

\* The IP stack reports the address configuration of the micro-AP interface.
NetUapAddrConfig ==
    /\ net_uap_pending
    /\ QueueHasRoom(State)
    /\ \E ok \in BOOLEAN :
           /\ ok \/ FaultAllowed
           /\ Commit([PostEvent(State, "UAP_NET_ADDR_CONFIG",
                                 IF ok THEN "SUCCESS" ELSE "FAILURE", 0)
                          EXCEPT !.net_uap_pending = FALSE])
           /\ faults_left' = IF ok THEN faults_left ELSE faults_left - 1
    /\ UNCHANGED <<upc, uarg, calls_left>>

\* The firmware has gone to sleep and the sleep confirm was answered.
DrvSleepConfirm ==
    /\ drv_ieeeps = "on"
    /\ QueueHasRoom(State)
    /\ Commit(PostEvent(State, "IEEE_PS", "SUCCESS", "SLEEP_CONFIRM"))
    /\ UNCHANGED <<upc, uarg, calls_left, faults_left>>

\* The firmware answers wifi_exit_ieee_power_save.
DrvPsDisabled ==
    /\ drv_ieeeps = "exit_req"
    /\ QueueHasRoom(State)
    /\ Commit([PostEvent(State, "IEEE_PS", "SUCCESS", "DIS_AUTO_PS") EXCEPT
                   !.drv_ieeeps = "off"])
    /\ UNCHANGED <<upc, uarg, calls_left, faults_left>>

\* The firmware answers wifi_enter_ieee_power_save.
DrvPsEnabled ==
    /\ drv_ieeeps = "on"
    /\ QueueHasRoom(State)
    /\ Commit(PostEvent(State, "IEEE_PS", "SUCCESS", "EN_AUTO_PS"))
    /\ UNCHANGED <<upc, uarg, calls_left, faults_left>>

\* The firmware in power save announces that it is about to sleep
\* (WIFI_EVENT_SLEEP) and waits for the sleep confirm.
DrvSleep ==
    /\ drv_ieeeps = "on"
    /\ QueueHasRoom(State)
    /\ Commit(PostEvent(State, "SLEEP", "SUCCESS", 0))
    /\ UNCHANGED <<upc, uarg, calls_left, faults_left>>

\* The firmware in power save announces that it woke up (WIFI_EVENT_AWAKE).
DrvAwake ==
    /\ drv_ieeeps = "on"
    /\ QueueHasRoom(State)
    /\ Commit(PostEvent(State, "AWAKE", "SUCCESS", 0))
    /\ UNCHANGED <<upc, uarg, calls_left, faults_left>>

\* wifi_wakeup_card_cb: a transmitting thread finds the card asleep, wakes it
\* and marks a transfer as pending.
wifi_wakeup_card_cb ==
    /\ drv_ieeeps = "on"
    /\ ~xfer_pending
    /\ Commit(wifi_set_xfer_pending(State, TRUE))
    /\ UNCHANGED <<upc, uarg, calls_left, faults_left>>

\* The driver has sent the pending frames and clears the flag.
DrvXferDone ==
    /\ xfer_pending
    /\ Commit(wifi_set_xfer_pending(State, FALSE))
    /\ UNCHANGED <<upc, uarg, calls_left, faults_left>>

DrvScanDone ==
    /\ drv_scans > 0
    /\ QueueHasRoom(State)
    /\ Commit(PostEvent([State EXCEPT !.drv_scans = @ - 1],
                        "SCAN_RESULT", "SUCCESS", 0))
    /\ UNCHANGED <<upc, uarg, calls_left, faults_left>>

DrvAssocResult ==
    /\ drv_link = "assoc_req"
    /\ QueueHasRoom(State)
    /\ \/ /\ Commit(PostEvent([State EXCEPT !.drv_link = "auth_wait"],
                              "ASSOCIATION", "SUCCESS", 0))
          /\ UNCHANGED faults_left
       \/ /\ FaultAllowed
          /\ Commit(PostEvent([State EXCEPT !.drv_link = "down"],
                              "ASSOCIATION", "FAILURE", 0))
          /\ faults_left' = faults_left - 1
    /\ UNCHANGED <<upc, uarg, calls_left>>

DrvAuthResult ==
    /\ drv_link = "auth_wait"
    /\ QueueHasRoom(State)
    /\ \/ /\ Commit(PostEvent([State EXCEPT !.drv_link = "up"],
                              "AUTHENTICATION", "SUCCESS", 0))
          /\ UNCHANGED faults_left
       \/ /\ FaultAllowed
          /\ \E code \in {IEEEtypes_REASON_MIC_FAILURE, REASON_OTHER} :
                 Commit(PostEvent([State EXCEPT !.drv_link = "down"],
                                  "AUTHENTICATION", "FAILURE", code))
          /\ faults_left' = faults_left - 1
    /\ UNCHANGED <<upc, uarg, calls_left>>

DrvLinkLoss ==
    /\ drv_link = "up"
    /\ FaultAllowed
    /\ QueueHasRoom(State)
    /\ \E code \in {IEEEtypes_REASON_MIC_FAILURE,
                    IEEEtypes_REASON_4WAY_HANDSHK_TIMEOUT, REASON_OTHER} :
           Commit(PostEvent([State EXCEPT !.drv_link = "down"],
                            "LINK_LOSS", "SUCCESS", code))
    /\ faults_left' = faults_left - 1
    /\ UNCHANGED <<upc, uarg, calls_left>>

DrvDisassoc ==
    /\ drv_link = "up"
    /\ FaultAllowed
    /\ QueueHasRoom(State)
    /\ Commit(PostEvent([State EXCEPT !.drv_link = "down"],
                        "DISASSOCIATION", "SUCCESS", 0))
    /\ faults_left' = faults_left - 1
    /\ UNCHANGED <<upc, uarg, calls_left>>

\* The access point deauthenticates the station.
DrvDeauth ==
    /\ drv_link \in {"auth_wait", "up"}
    /\ FaultAllowed
    /\ QueueHasRoom(State)
    /\ Commit(PostEvent([State EXCEPT !.drv_link = "down"],
                        "DEAUTHENTICATION", "SUCCESS", 0))
    /\ faults_left' = faults_left - 1
    /\ UNCHANGED <<upc, uarg, calls_left>>

NetAddrConfig ==
    /\ net_pending = "addr"
    /\ QueueHasRoom(State)
    /\ \/ /\ Commit(PostEvent(
                 [State EXCEPT !.net_pending =
                     IF NetworkAt(State, cur_network_idx).addr_type = "DHCP"
                     THEN "dhcp" ELSE "none"],
                 "NET_STA_ADDR_CONFIG", "SUCCESS", 0))
          /\ UNCHANGED faults_left
       \/ /\ FaultAllowed
          /\ Commit(PostEvent([State EXCEPT !.net_pending = "none"],
                              "NET_STA_ADDR_CONFIG", "FAILURE", 0))
          /\ faults_left' = faults_left - 1
    /\ UNCHANGED <<upc, uarg, calls_left>>

NetDhcpConfig ==
    /\ net_pending = "dhcp"
    /\ QueueHasRoom(State)
    /\ \/ /\ drv_link = "up"
          /\ Commit(PostEvent([State EXCEPT !.net_pending = "none"],
                              "NET_DHCP_CONFIG", "SUCCESS", 0))
          /\ UNCHANGED faults_left
       \/ /\ FaultAllowed
          /\ Commit(PostEvent([State EXCEPT !.net_pending = "none"],
                              "NET_DHCP_CONFIG", "FAILURE", 0))
          /\ faults_left' = faults_left - 1
    /\ UNCHANGED <<upc, uarg, calls_left>>

(***************************************************************************)
(* wlan_start() has returned and cm_main has called net_wlan_init(), whose *)
(* completion message is in the queue.                                     *)
(***************************************************************************)
InitBuild(calls, faults, hs) ==
    /\ running = TRUE
    /\ sta_state = CM_STA_INITIALIZING
    /\ sta_return_to = CM_STA_IDLE
    /\ sta_ipv4_state = CM_STA_INITIALIZING
    /\ scan_lock = 1
    /\ is_scan_lock = FALSE
    /\ events = <<Msg("NET_INTERFACE_CONFIG", "SUCCESS", 0)>>
    /\ cur_network_idx = -1
    /\ scan_count = 0
    /\ reassoc_count = 0
    /\ reassoc_control = TRUE
    /\ reassoc_request = FALSE
    /\ assoc_paused = FALSE
    /\ pending_assoc_request = FALSE
    /\ roam_reassoc = FALSE
    /\ hidden_scan_on = FALSE
    /\ scan_cb = FALSE
    /\ timer_active = FALSE
    /\ drv_scans = 0
    /\ drv_link = "down"
    /\ net_pending = "none"
    /\ upc = [t \in Threads |-> "idle"]
    /\ uarg = [t \in Threads |-> -1]
    /\ calls_left = calls
    /\ faults_left = faults
    /\ cb_log = <<>>
    /\ lock_overrun = FALSE
    /\ gave_up = FALSE
    /\ assoc_network = [idx |-> -1, network |-> NoNetwork]
    /\ uap_state = CM_UAP_INITIALIZING
    /\ cur_uap_network_idx = -1
    /\ drv_uap = "down"
    /\ net_uap_pending = FALSE
    /\ cm_ieeeps_configured = FALSE
    /\ ieee_ps_sleep_cb_sent = FALSE
    /\ drv_ieeeps = "off"
    /\ host_sleep = hs
    /\ wakelock = 0
    /\ connect_wakelock_taken = FALSE
    /\ ieeeps_state = "IEEEPS_INIT"
    /\ ieeeps_prev_state = "IEEEPS_INIT"
    /\ g_req_sl_confirm = FALSE
    /\ xfer_pending = FALSE
    /\ slp_cfm_sent = FALSE
    /\ user_disconnected = FALSE
    /\ deferred_idx = -1

\* The build of the other specifications leaves CONFIG_HOST_SLEEP undefined.
InitWith(calls, faults) == InitBuild(calls, faults, FALSE)

\* The profile store holds nets.
StoreIs(nets) ==
    /\ networks = nets
    /\ num_networks = Cardinality({k \in DOMAIN nets : nets[k].name # ""})

\* The buffer best_ap before handle_scan_results has copied a result into it.
NoAp == [bssid |-> 0, RSSI |-> 0, matches |-> FALSE]

\* No call on the store has returned to the thread.
NoCall == [call |-> "none", name |-> "", ret |-> "NONE"]

SelIdle ==
    /\ scan_results = <<>>
    /\ matching_ap_found = FALSE
    /\ best_ap = NoAp
    /\ sel_pc = "idle"
    /\ unet = [t \in Threads |-> NoNetwork]
    /\ uret = [t \in Threads |-> NoCall]

Init == InitWith(MaxCalls, MaxFaults) /\ StoreIs(InitNetworks) /\ SelIdle

UserStep ==
    \E t \in Threads :
        \/ \E name \in Names \cup {"nowhere"} : wlan_connect_begin(t, name)
        \/ wlan_connect_get(t)
        \/ wlan_connect_send(t)
        \/ wlan_reassociate_begin(t)
        \/ wlan_reassociate_get(t)
        \/ wlan_reassociate_send(t)
        \/ wlan_scan_with_opt_begin(t)
        \/ wlan_scan_with_opt_get(t)
        \/ wlan_scan_with_opt_send(t)
        \/ wlan_disconnect_call(t)
        \/ \E b \in BOOLEAN : wlan_set_reassoc_control(t, b)

DriverStep ==
    \/ DrvScanDone
    \/ DrvAssocResult
    \/ DrvAuthResult
    \/ DrvLinkLoss
    \/ DrvDisassoc
    \/ NetAddrConfig
    \/ NetDhcpConfig

Next == Dispatch \/ AssocTimerExpires \/ UserStep \/ DriverStep

Spec == Init /\ [][Next]_vars

(***************************************************************************)
(* One wlan_connect() and what the driver, the IP stack and the dispatcher *)
(* make of it.                                                             *)
(***************************************************************************)
InitReconnect ==
    InitWith(ReconnectCalls, ReconnectFaults) /\ StoreIs(InitNetworks) /\ SelIdle

ConnectStep ==
    \E t \in Threads :
        \/ \E name \in Names \cup {"nowhere"} : wlan_connect_begin(t, name)
        \/ wlan_connect_get(t)
        \/ wlan_connect_send(t)

NextReconnect == Dispatch \/ ConnectStep \/ DriverStep

SpecReconnect == InitReconnect /\ [][NextReconnect]_vars

(***************************************************************************)
(* One wlan_connect() while the application removes and adds profiles.     *)
(***************************************************************************)
GuestNetwork == OpenNetwork("guest", "STA", "STATIC", "Guest")

InitProfile ==
    InitWith(ProfileCalls, ProfileFaults) /\ StoreIs(InitNetworks) /\ SelIdle

ProfileStep ==
    \E t \in Threads :
        \/ wlan_add_network_find(t, GuestNetwork)
        \/ wlan_add_network_store(t)
        \/ \E name \in {"home", "guest"} : wlan_remove_network(t, name)

\* The driver and the IP stack answer the commands; the link is not lost.
DriverAnswers ==
    \/ DrvScanDone
    \/ DrvAssocResult
    \/ DrvAuthResult
    \/ NetAddrConfig
    \/ NetDhcpConfig

NextProfile == Dispatch \/ ConnectStep \/ ProfileStep \/ DriverAnswers

SpecProfile == InitProfile /\ [][NextProfile]_vars

(***************************************************************************)
(* The profile store on its own: a few calls of wlan_add_network and       *)
(* wlan_remove_network by the user threads, on a store that holds the      *)
(* first k of five profiles.  The dispatcher only handles the completion   *)
(* of the start, after which the manager is running.                       *)
(***************************************************************************)
KnownProfiles ==
    <<OpenNetwork("home", "STA", "DHCP", "Home"),
      OpenNetwork("lab", "STA", "STATIC", "Lab"),
      OpenNetwork("ap", "UAP", "STATIC", "Ap"),
      OpenNetwork("cafe", "STA", "DHCP", "Cafe"),
      OpenNetwork("hotel", "STA", "DHCP", "Hotel")>>

StorePrefix(k) ==
    [i \in 1 .. WLAN_MAX_KNOWN_NETWORKS |->
        IF i <= k THEN KnownProfiles[i] ELSE NoNetwork]

\* A station profile with a WPA2 passphrase of eight characters.
OfficeNetwork ==
    [OpenNetwork("office", "STA", "DHCP", "Office") EXCEPT
        !.security = "WPA2", !.psk_len = 8,
        !.psk = <<"p", "a", "s", "s", "w", "o", "r", "d">>]

AddProfiles == {KnownProfiles[1], GuestNetwork, OfficeNetwork}

RemoveNames == {"home", "lab", "guest", "office"}

InitStore ==
    /\ InitWith(StoreCalls, StoreFaults)
    /\ \E k \in 0 .. WLAN_MAX_KNOWN_NETWORKS : StoreIs(StorePrefix(k))
    /\ SelIdle

StoreStep ==
    \E t \in Threads :
        \/ \E network \in AddProfiles : wlan_add_network_find(t, network)
        \/ wlan_add_network_store(t)
        \/ \E name \in RemoveNames : wlan_remove_network(t, name)

NextStore == Dispatch \/ StoreStep

SpecStore == InitStore /\ [][NextStore]_vars

(***************************************************************************)
(* The check of the passphrase in wlan_add_network: thread 1 has filled a  *)
(* station profile with a WPA-family security type, a PSK length and the   *)
(* characters of the PSK, and adds it to the empty store.  The psk field   *)
(* holds WLAN_PSK_MAX_LENGTH - 1 characters at most.  The characters are   *)
(* hexadecimal digits except for at most one, which is drawn from the      *)
(* ends of the digit ranges and the characters next to them.               *)
(***************************************************************************)
KeySecurities == {"WPA", "WPA2", "WPA_WPA2_MIXED"}

KeyChars == {"0", "9", "A", "F", "a", "f", "/", ":", "@", "G", "_", "g"}

\* where the drawn character stands: nowhere, first, in the middle, last
KeyPositions == {0, 1, 33, WLAN_PSK_MAX_LENGTH - 1}

Min(a, b) == IF a < b THEN a ELSE b

KeyProfile(security, len, pos, c) ==
    [OpenNetwork("office", "STA", "DHCP", "Office") EXCEPT
        !.security = security,
        !.psk_len = len,
        !.psk = [k \in 1 .. Min(len, WLAN_PSK_MAX_LENGTH - 1) |->
                    IF k = pos THEN c ELSE "b"]]

KeyProfiles ==
    {KeyProfile(security, len, pos, c) :
        security \in KeySecurities, len \in 0 .. KeyMaxLen,
        pos \in KeyPositions, c \in KeyChars}

InitKey ==
    /\ InitWith(KeyCalls, KeyFaults)
    /\ StoreIs(StorePrefix(0))
    /\ scan_results = <<>>
    /\ matching_ap_found = FALSE
    /\ best_ap = NoAp
    /\ sel_pc = "idle"
    /\ uret = [t \in Threads |-> NoCall]
    /\ \E network \in KeyProfiles :
           unet = [t \in Threads |-> IF t = 1 THEN network ELSE NoNetwork]

KeyStep ==
    \E t \in Threads :
        \/ unet[t] # NoNetwork /\ wlan_add_network_find(t, unet[t])
        \/ wlan_add_network_store(t)

NextKey == Dispatch \/ KeyStep

SpecKey == InitKey /\ [][NextKey]_vars

(***************************************************************************)
(* The check of the name in wlan_add_network: thread 1 has filled an open  *)
(* station profile whose name has 0 .. NameMaxLen characters and adds it   *)
(* to the empty store.  The name field has room for                        *)
(* WLAN_NETWORK_NAME_MAX_LENGTH characters and the terminator; a longer    *)
(* name stands for a field without terminator, whose strlen runs on.       *)
(***************************************************************************)
RECURSIVE NameOfLength(_)
NameOfLength(n) == IF n = 0 THEN "" ELSE NameOfLength(n - 1) \o "n"

NameProfiles ==
    {OpenNetwork(NameOfLength(n), "STA", addr_type, "Office") :
        n \in 0 .. NameMaxLen, addr_type \in {"DHCP", "STATIC"}}

InitName ==
    /\ InitWith(KeyCalls, KeyFaults)
    /\ StoreIs(StorePrefix(0))
    /\ scan_results = <<>>
    /\ matching_ap_found = FALSE
    /\ best_ap = NoAp
    /\ sel_pc = "idle"
    /\ uret = [t \in Threads |-> NoCall]
    /\ \E network \in NameProfiles :
           unet = [t \in Threads |-> IF t = 1 THEN network ELSE NoNetwork]

SpecName == InitName /\ [][NextKey]_vars

(***************************************************************************)
(* The micro-AP on its own: the user threads start and stop the network    *)
(* "ap" (and try the station profile "home"), the firmware and the IP      *)
(* stack answer.                                                           *)
(***************************************************************************)
InitUap == InitWith(UapCalls, UapFaults) /\ StoreIs(InitNetworks) /\ SelIdle

UapUserStep ==
    \E t \in Threads :
        \/ \E name \in {"ap", "home"} : wlan_start_network(t, name)
        \/ wlan_stop_network(t, "ap")

UapDriverStep == DrvUapStarted \/ DrvUapStopped \/ NetUapAddrConfig

NextUap == Dispatch \/ UapUserStep \/ UapDriverStep

SpecUap == InitUap /\ [][NextUap]_vars

\* The dispatcher runs whenever the queue holds a message, and the firmware
\* and the IP stack answer every command.
SpecUapFair ==
    /\ SpecUap
    /\ WF_vars(Dispatch)
    /\ WF_vars(DrvUapStarted)
    /\ WF_vars(DrvUapStopped)
    /\ WF_vars(NetUapAddrConfig)

(***************************************************************************)
(* IEEE power save around one connection: a user thread connects to        *)
(* "lab", the threads switch power save on and off, the driver answers.    *)
(***************************************************************************)
InitPs == InitWith(PsCalls, PsFaults) /\ StoreIs(InitNetworks) /\ SelIdle

PsUserStep ==
    \E t \in Threads :
        \/ wlan_connect_begin(t, "lab")
        \/ wlan_connect_get(t)
        \/ wlan_connect_send(t)
        \/ wlan_ieeeps_on(t)
        \/ wlan_ieeeps_off(t)

\* "lab" has a static address, so the DHCP client has nothing to report.
PsDriverStep ==
    \/ DrvScanDone
    \/ DrvAssocResult
    \/ DrvAuthResult
    \/ NetAddrConfig
    \/ DrvSleepConfirm
    \/ DrvPsDisabled

NextPs == Dispatch \/ PsUserStep \/ PsDriverStep

SpecPs == InitPs /\ [][NextPs]_vars

(***************************************************************************)
(* The firmware in power save: the threads switch IEEE power save on and   *)
(* off and disconnect, the firmware announces sleep and wake-up, and the   *)
(* transmit path marks transfers as pending.  The receive of cm_main times *)
(* out only while g_req_sl_confirm is set; PsFsmAtRest shows that it never *)
(* is, so cm_main_timeout is no step of this specification.                *)
(***************************************************************************)
InitSleep == InitWith(SleepCalls, SleepFaults) /\ StoreIs(InitNetworks) /\ SelIdle

SleepUserStep ==
    \E t \in Threads :
        \/ wlan_ieeeps_on(t)
        \/ wlan_ieeeps_off(t)
        \/ wlan_disconnect_call(t)

SleepDriverStep ==
    \/ DrvPsEnabled
    \/ DrvSleep
    \/ DrvAwake
    \/ DrvSleepConfirm
    \/ DrvPsDisabled
    \/ wifi_wakeup_card_cb
    \/ DrvXferDone

NextSleep == Dispatch \/ SleepUserStep \/ SleepDriverStep

SpecSleep == InitSleep /\ [][NextSleep]_vars

\* The timeout branch of cm_main, were the receive ever to time out.
QueueTimeout ==
    /\ events = <<>>
    /\ g_req_sl_confirm
    /\ Commit(cm_main_timeout(State))
    /\ UNCHANGED <<upc, uarg, calls_left, faults_left>>

(***************************************************************************)
(* A driver that rejects every scan command (wifi_send_scan_cmd returns an *)
(* error each time): no scan ever runs, so the scan table stays empty and  *)
(* no result matches.  The dispatcher runs whenever a message is queued    *)
(* and a thread inside wlan_connect goes on once the scan lock is free.    *)
(***************************************************************************)
InitRejecting == InitWith(RejectCalls, RejectFaults) /\ StoreIs(InitNetworks) /\ SelIdle

RejectingEnvs(ev) ==
    {[e EXCEPT !.scan_ok = FALSE, !.match = FALSE, !.hidden = FALSE] :
        e \in {n \in EnvsFor(ev) : n = Nominal(n)}}

DispatchRejecting ==
    /\ events # <<>>
    /\ \E e \in RejectingEnvs(Head(events).event) : Commit(cm_main(AtDispatch, e))
    /\ UNCHANGED <<upc, uarg, calls_left, faults_left>>

NextRejecting == DispatchRejecting \/ ConnectStep

SpecRejecting ==
    /\ InitRejecting
    /\ [][NextRejecting]_vars
    /\ WF_vars(DispatchRejecting)
    /\ \A t \in Threads : WF_vars(wlan_connect_get(t) \/ wlan_connect_send(t))

(***************************************************************************)
(* The connection manager with an access point that may deauthenticate    *)
(* the station.                                                            *)
(***************************************************************************)
NextDeauth == Next \/ DrvDeauth

SpecDeauth == Init /\ [][NextDeauth]_vars

(***************************************************************************)
(* The wake lock in a build with CONFIG_HOST_SLEEP: the threads connect,   *)
(* disconnect and ask for host sleep, the driver answers.                  *)
(***************************************************************************)
WakeCalls == 2

WakeFaults == 1

InitWake ==
    InitBuild(WakeCalls, WakeFaults, TRUE) /\ StoreIs(InitNetworks) /\ SelIdle

WakeUserStep ==
    \E t \in Threads :
        \/ \E name \in {"home", "lab"} : wlan_connect_begin(t, name)
        \/ wlan_connect_get(t)
        \/ wlan_connect_send(t)
        \/ wlan_disconnect_call(t)
        \/ wlan_send_host_sleep(t)

NextWake == Dispatch \/ WakeUserStep \/ DriverAnswers

SpecWake == InitWake /\ [][NextWake]_vars

(***************************************************************************)
(* The choice of the access point in handle_scan_results.  A scan result   *)
(* is its BSSID, its RSSI field (an unsigned byte) and the verdict of      *)
(* network_matches_scan_result for the profile being connected.            *)
(***************************************************************************)
RECURSIVE best_ap_loop_greater(_, _, _, _)
RECURSIVE best_ap_loop(_, _, _, _)

RssiValues == {40, 55, 70}

ScanResults ==
    [bssid : 1 .. MaxResults, RSSI : RssiValues, matches : BOOLEAN]

\* The scan tables of 0 .. MaxResults results with distinct BSSIDs, in the
\* order of the table.
ScanTables ==
    UNION {{tab \in [1 .. n -> ScanResults] :
               \A k \in 1 .. n : tab[k].bssid = k} : n \in 0 .. MaxResults}

\* A loop that keeps the result with the greater RSSI field; the choice of
\* the lowest field value must reject it.
best_ap_loop_greater(tab, k, found, best) ==
    IF k > Len(tab) THEN [matching_ap_found |-> found, best_ap |-> best]
    ELSE IF ~tab[k].matches THEN best_ap_loop_greater(tab, k + 1, found, best)
    ELSE IF ~found THEN best_ap_loop_greater(tab, k + 1, TRUE, tab[k])
    ELSE IF best.RSSI < tab[k].RSSI
         THEN best_ap_loop_greater(tab, k + 1, found, tab[k])
    ELSE best_ap_loop_greater(tab, k + 1, found, best)

\* for (i = 0; i < count; i++): iteration k onwards, with the locals
\* matching_ap_found and best_ap as they stand.
best_ap_loop(tab, k, found, best) ==
    IF k > Len(tab) THEN [matching_ap_found |-> found, best_ap |-> best]
    ELSE IF ~tab[k].matches THEN best_ap_loop(tab, k + 1, found, best)
    ELSE IF ~found THEN best_ap_loop(tab, k + 1, TRUE, tab[k])
    ELSE IF best.RSSI > tab[k].RSSI THEN best_ap_loop(tab, k + 1, found, tab[k])
    ELSE best_ap_loop(tab, k + 1, found, best)

InitSelect ==
    /\ InitWith(0, 0)
    /\ StoreIs(InitNetworks)
    /\ scan_results \in ScanTables
    /\ matching_ap_found = FALSE
    /\ best_ap = NoAp
    /\ sel_pc = "loop"
    /\ unet = [t \in Threads |-> NoNetwork]
    /\ uret = [t \in Threads |-> NoCall]

ChooseBestAp ==
    /\ sel_pc = "loop"
    /\ LET r == best_ap_loop(scan_results, 1, FALSE, NoAp)
       IN  /\ matching_ap_found' = r.matching_ap_found
           /\ best_ap' = r.best_ap
    /\ sel_pc' = "chosen"
    /\ UNCHANGED <<scan_results, mgrVars, storeCallVars>>

NextSelect == ChooseBestAp

SpecSelect == InitSelect /\ [][NextSelect]_vars

TypeOK ==
    /\ sta_state \in StaStates
    /\ sta_return_to \in StaStates
    /\ scan_lock \in {0, 1}
    /\ is_scan_lock \in BOOLEAN
    /\ Len(events) <= QueueCap
    /\ drv_scans \in 0 .. MaxScansInFlight
    /\ drv_link \in {"down", "assoc_req", "auth_wait", "up"}
    /\ net_pending \in {"none", "addr", "dhcp"}
    /\ gave_up \in BOOLEAN
    /\ uap_state \in CM_UAP_INITIALIZING .. CM_UAP_IP_UP
    /\ drv_uap \in {"down", "start_req", "up", "stop_req"}
    /\ net_uap_pending \in BOOLEAN
    /\ host_sleep \in BOOLEAN
    /\ connect_wakelock_taken \in BOOLEAN
    /\ ~host_sleep => (wakelock = 0 /\ ~connect_wakelock_taken)
    /\ cm_ieeeps_configured \in BOOLEAN
    /\ ieee_ps_sleep_cb_sent \in BOOLEAN
    /\ drv_ieeeps \in {"off", "on", "exit_req"}
    /\ ieeeps_state \in IeeepsStates
    /\ ieeeps_prev_state \in IeeepsStates
    /\ g_req_sl_confirm \in BOOLEAN
    /\ xfer_pending \in BOOLEAN
    /\ slp_cfm_sent \in BOOLEAN
    /\ user_disconnected \in BOOLEAN
    /\ deferred_idx \in -1 .. WLAN_MAX_KNOWN_NETWORKS - 1
    /\ pending_assoc_request <=> deferred_idx # -1

(***************************************************************************)
(* Properties.                                                             *)
(***************************************************************************)
\* C1: at most one scan is in flight in the driver at any time, the count of
\* the scan lock is 0 or 1, and the lock is never released when it is already
\* free (released twice for one acquisition).
C1_OneScanInFlight ==
    /\ drv_scans <= 1
    /\ scan_lock \in {0, 1}
    /\ ~lock_overrun

\* No message is queued, no user thread is inside an API call, and neither
\* the driver, the IP stack nor the timer owes the dispatcher an event: the
\* dispatcher will not run again until the next API call.
Quiescent ==
    /\ events = <<>>
    /\ \A t \in Threads : upc[t] = "idle"
    /\ drv_scans = 0
    /\ drv_link \in {"down", "up"}
    /\ net_pending = "none"
    /\ ~timer_active

\* C2: every acquisition of the scan lock by wlan_connect, wlan_reassociate
\* or wlan_scan_with_opt is followed by its release within a bounded number
\* of dispatcher events, on every path (queue full, request dropped or
\* deferred included): when the dispatcher has no event left to process and
\* none is owed to it, the lock is free.
C2_LockReleasedWhenQuiet == Quiescent => scan_lock = 1

\* A user thread is between os_semaphore_get and `wlan.is_scan_lock = 1`.
InLockWindow ==
    \E t \in Threads : upc[t] \in {"connect_send", "reassoc_send", "scan_send"}

\* C3: wlan.is_scan_lock is true exactly when the semaphore wlan.scan_lock is
\* held, under any interleaving of API calls and dispatcher events (the two
\* statements that take the lock and set the flag count as one).
C3_FlagIffHeld == ~InLockWindow => (is_scan_lock <=> scan_lock = 0)

Connecting == sta_state \in CM_STA_SCANNING .. CM_STA_OBTAINING_ADDRESS

\* C5: an accepted wlan_connect never leaves the station connecting for ever:
\* once the driver and the IP stack have answered every command and the
\* dispatcher has processed every message, the attempt has ended, with the
\* station CONNECTED or back in IDLE.
C5_AttemptEnds == Quiescent => ~Connecting

\* The step is the iteration of cm_main that handles a message of kind ev.
Handles(ev) == events # <<>> /\ Head(events).event = ev /\ Dispatch

\* The last step gave reason r to the event callback.
Emitted(r) == \E i \in DOMAIN cb_log : cb_log[i] = r

\* The station is idle as wlcm_request_disconnect sees it: initializing,
\* idle, or in a user scan that was started from idle.
IdleForDisconnect ==
    \/ sta_state <= CM_STA_IDLE
    \/ sta_state = CM_STA_SCANNING_USER /\ sta_return_to = CM_STA_IDLE

\* C6, as the spec states it: after wlan_connect of a known profile has been
\* processed, handling the disconnect request emits USER_DISCONNECT and
\* leaves the station IDLE.
C6_DisconnectAlwaysReported ==
    [][(Handles("CM_STA_USER_REQUEST_DISCONNECT") /\ cur_network_idx # -1) =>
          (Emitted("USER_DISCONNECT") /\ sta_state = CM_STA_IDLE)']_vars

\* C6, as the code has it: handling the disconnect request while the station
\* is not idle emits USER_DISCONNECT exactly once and leaves the station
\* IDLE; handled while the station is idle it emits nothing.
C6_DisconnectReportedWhenNotIdle ==
    [][Handles("CM_STA_USER_REQUEST_DISCONNECT") =>
          IF IdleForDisconnect
          THEN cb_log' = <<>>
          ELSE cb_log' = <<"USER_DISCONNECT">> /\ sta_state' = CM_STA_IDLE]_vars

\* A disconnect request has just been handled during a connection attempt.
C6_Witness ==
    /\ cb_log = <<"USER_DISCONNECT">>
    /\ sta_state = CM_STA_IDLE
    /\ cur_network_idx # -1

\* C7, as the spec states it: handling the disconnect request in SCANNING,
\* in a user scan made during a connection, or in ASSOCIATING .. CONNECTED
\* leaves the scan lock free and the station IDLE.
C7_DisconnectFreesLock ==
    [][(Handles("CM_STA_USER_REQUEST_DISCONNECT") /\ ~IdleForDisconnect) =>
          (scan_lock' = 1 /\ ~is_scan_lock' /\ sta_state' = CM_STA_IDLE)]_vars

\* C7, as the code has it: handling the disconnect request when the station
\* is not idle leaves the station IDLE; it puts the semaphore and clears
\* is_scan_lock only from ASSOCIATING .. CONNECTED with is_scan_lock set, and
\* leaves both untouched in SCANNING and in a user scan, where the lock stays
\* with the scan until its SCAN_RESULT is handled; handling a SCAN_RESULT
\* outside a roaming reassociation always leaves the lock free.
C7_DisconnectLeavesIdle ==
    [][/\ (Handles("CM_STA_USER_REQUEST_DISCONNECT") /\ ~IdleForDisconnect) =>
             /\ sta_state' = CM_STA_IDLE
             /\ IF sta_state >= CM_STA_ASSOCIATING /\ is_scan_lock
                THEN scan_lock' = 1 /\ ~is_scan_lock'
                ELSE scan_lock' = scan_lock /\ is_scan_lock' = is_scan_lock
       /\ (Handles("SCAN_RESULT") /\ ~(roam_reassoc /\ sta_state = CM_STA_CONNECTED))
             => (scan_lock' = 1 /\ ~is_scan_lock')]_vars

\* The disconnect request has just been handled during the connect scan: the
\* station is IDLE, the scan is still in flight and the lock still held.
C7_Witness ==
    /\ cb_log = <<"USER_DISCONNECT">>
    /\ sta_state = CM_STA_IDLE
    /\ drv_scans > 0
    /\ scan_lock = 0
    /\ is_scan_lock

\* A scan result set in which no BSS matches the profile and none hides its
\* SSID; ok tells whether the driver accepts a further scan command.
NoMatch(ok) == [AllOk EXCEPT !.match = FALSE, !.scan_ok = ok]

\* The dispatcher is about to handle the result of a connect scan.
ConnectScanResultDue ==
    /\ events # <<>>
    /\ Head(events).event = "SCAN_RESULT"
    /\ sta_state = CM_STA_SCANNING
    /\ ~roam_reassoc

\* What handling a result set without a match does: below the rescan limit
\* it asks for another scan and tells the callback nothing, at the limit it
\* tells the callback NETWORK_NOT_FOUND, once, asks the driver for nothing
\* and leaves the station IDLE.
NotFoundOutcome(s) ==
    IF scan_count < WLAN_RESCAN_LIMIT
    THEN /\ s.cb_log = <<>>
         /\ s.sta_state = CM_STA_SCANNING
         /\ s.scan_count - scan_count = s.drv_scans - drv_scans
         /\ s.scan_count - scan_count \in {0, 1}
    ELSE /\ s.cb_log = <<"NETWORK_NOT_FOUND">>
         /\ s.sta_state = CM_STA_IDLE
         /\ s.drv_scans = drv_scans
         /\ s.events = Tail(events)

\* C8, as the spec states it: when no scan result ever matches, the driver is
\* asked for exactly WLAN_RESCAN_LIMIT scans, then the callback gets exactly
\* NETWORK_NOT_FOUND and the station is IDLE.
C8_NotFoundEndsAttempt ==
    ConnectScanResultDue =>
        \A ok \in BOOLEAN : NotFoundOutcome(cm_main(State, NoMatch(ok)))

\* C8, as the code has it: the same with automatic reconnection switched off
\* (wlan_set_reassoc_control(false)); scan_count counts the scan commands of
\* do_scan that the driver accepted since do_connect.
C8_NotFoundEndsAttemptNoReassoc ==
    (ConnectScanResultDue /\ ~reassoc_control) =>
        \A ok \in BOOLEAN : NotFoundOutcome(cm_main(State, NoMatch(ok)))

\* The fifth scan without a match has just been handled with reconnection
\* off: NETWORK_NOT_FOUND delivered, station IDLE, no scan in flight.
C8_Witness ==
    /\ ~reassoc_control
    /\ cb_log = <<"NETWORK_NOT_FOUND">>
    /\ scan_count = WLAN_RESCAN_LIMIT
    /\ sta_state = CM_STA_IDLE
    /\ drv_scans = 0

C10_IdleAfterGivingUp == gave_up => sta_state = CM_STA_IDLE

(***************************************************************************)
(* C11.  Among the scan results that match the profile, the access point   *)
(* chosen for the association has the greatest RSSI: no matching result    *)
(* has an RSSI above the chosen one's.                                     *)
(***************************************************************************)
Matching == {k \in DOMAIN scan_results : scan_results[k].matches}

C11_ChosenHasGreatestRssi ==
    (sel_pc = "chosen" /\ matching_ap_found) =>
        \A k \in Matching : scan_results[k].RSSI <= best_ap.RSSI

\* C11 as the code has it: the chosen access point is a matching result, the
\* first of those whose RSSI field is the lowest; one is chosen exactly when
\* a result matches.
C11_ChosenHasLowestRssiField ==
    sel_pc = "chosen" =>
        /\ matching_ap_found <=> Matching # {}
        /\ matching_ap_found =>
              /\ best_ap.bssid \in Matching
              /\ best_ap = scan_results[best_ap.bssid]
              /\ \A k \in Matching :
                    /\ scan_results[k].RSSI >= best_ap.RSSI
                    /\ scan_results[k].RSSI = best_ap.RSSI => k >= best_ap.bssid

C11_Witness ==
    /\ sel_pc = "chosen"
    /\ matching_ap_found
    /\ \E k \in Matching : scan_results[k].RSSI > best_ap.RSSI
    /\ \E k \in DOMAIN scan_results :
          ~scan_results[k].matches /\ scan_results[k].RSSI < best_ap.RSSI

(***************************************************************************)
(* C12.  wlan_connect called while the station is connecting or connected: *)
(* the manager cancels the attempt or disconnects and gives USER_DISCONNECT*)
(* to the callback before anything about the new attempt.  The dispatcher  *)
(* iteration that handles the request is the one that starts the new       *)
(* attempt, so it is the one that has to report the disconnection.         *)
(***************************************************************************)
C12_ConnectReportsDisconnect ==
    [][(/\ Handles("CM_STA_USER_REQUEST_CONNECT")
        /\ ~roam_reassoc
        /\ sta_state \in CM_STA_SCANNING .. CM_STA_CONNECTED
        /\ sta_state # CM_STA_SCANNING_USER)
          => (cb_log' # <<>> /\ cb_log'[1] = "USER_DISCONNECT")]_vars

(***************************************************************************)
(* C13.  A user scan that was started is answered by one call of its       *)
(* callback, whatever is processed while the scan is outstanding.          *)
(* report_scan_results calls the stashed callback only when SCAN_RESULT is *)
(* handled in CM_STA_SCANNING_USER, so a step that leaves that state must  *)
(* be the one that calls it (scan_cb becomes NULL).                        *)
(***************************************************************************)
C13_UserScanEndsWithCallback ==
    [][(scan_cb /\ sta_state = CM_STA_SCANNING_USER
                /\ sta_state' # CM_STA_SCANNING_USER) => ~scan_cb']_vars

(***************************************************************************)
(* C14.  A user scan request that the dispatcher handles while the station *)
(* is connecting (ASSOCIATING .. OBTAINING_ADDRESS) is rejected: no scan   *)
(* command goes to the driver, the scan callback is neither stashed nor    *)
(* called, the station keeps its state and the scan lock is released.      *)
(***************************************************************************)
ScanRequestDueWhileConnecting ==
    /\ events # <<>>
    /\ Head(events).event = "CM_STA_USER_REQUEST_SCAN"
    /\ sta_state \in CM_STA_ASSOCIATING .. CM_STA_OBTAINING_ADDRESS

ScanRejected(s) ==
    /\ s.drv_scans = drv_scans
    /\ s.scan_cb = scan_cb
    /\ s.cb_log = <<>>
    /\ s.sta_state = sta_state
    /\ s.sta_return_to = sta_return_to
    /\ s.scan_lock = 1
    /\ ~s.is_scan_lock
    /\ s.events = Tail(events)

C14_ScanRejectedWhileConnecting ==
    ScanRequestDueWhileConnecting =>
        \A e \in EnvsFor("CM_STA_USER_REQUEST_SCAN") :
            ScanRejected(cm_main(AtDispatch, e))

\* The request of a wlan_scan_with_opt that holds the scan lock is about to
\* be handled during an association.
C14_Witness ==
    /\ ScanRequestDueWhileConnecting
    /\ scan_lock = 0
    /\ is_scan_lock
    /\ ~scan_cb

(***************************************************************************)
(* C15.  Whenever the station is CONNECTED, wlan.cur_network_idx names a   *)
(* slot that holds a profile, and that profile is the one the association  *)
(* was requested with, whatever wlan_add_network and wlan_remove_network   *)
(* did during the connection attempt.                                      *)
(***************************************************************************)
C15_ConnectedProfileUnchanged ==
    sta_state = CM_STA_CONNECTED =>
        /\ cur_network_idx # -1
        /\ NetworkAt(State, cur_network_idx).name # ""
        /\ assoc_network.idx = cur_network_idx =>
              NetworkAt(State, cur_network_idx) = assoc_network.network

(***************************************************************************)
(* C16.  After any interleaving of wlan_add_network and                    *)
(* wlan_remove_network calls the names of the stored profiles are pairwise *)
(* distinct.                                                               *)
(***************************************************************************)
Stored == {k \in DOMAIN networks : networks[k].name # ""}

C16_NamesDistinct ==
    \A j, k \in Stored : networks[j].name = networks[k].name => j = k

(***************************************************************************)
(* C17.  For a valid profile p whose name is not in the store, add(p)      *)
(* followed by remove(p.name) returns the profile store to its prior state *)
(* and the count to its value before the add.  The two calls are made      *)
(* one after the other while the manager is running and no other call on   *)
(* the store is in progress; the outcomes of wifi_send_clear_wpa_psk are   *)
(* those the fault budget allows.                                          *)
(***************************************************************************)
ClearOutcomes(p) ==
    {TRUE} \cup (IF FaultAllowed /\ NeedsClearPsk(p) THEN {FALSE} ELSE {})

AddThenRemove(s, p, clear_ok) ==
    remove_network(
        add_network_store(s, add_network_find(s, p).pos, p, clear_ok).wlan,
        p.name).wlan

C17_AddRemoveRestores ==
    \A p \in AddProfiles : \A clear_ok \in ClearOutcomes(p) :
        (/\ is_running(State)
         /\ \A t \in Threads : upc[t] = "idle"
         /\ add_network_check(State, p) = "OK"
         /\ add_network_find(State, p).ret = "OK")
        => /\ AddThenRemove(State, p, clear_ok).networks = networks
           /\ wlan_get_network_count(AddThenRemove(State, p, clear_ok))
                  = wlan_get_network_count(State)

(***************************************************************************)
(* C18.  The store never holds more than WLAN_MAX_KNOWN_NETWORKS profiles: *)
(* a call of wlan_add_network with a valid profile of a new name, made     *)
(* when all the slots are occupied, returns -WM_E_NOMEM and leaves the     *)
(* store and the count as they were.                                       *)
(***************************************************************************)
\* Thread t makes the call wlan_add_network(p) in this step.
AddCalled(t, p) ==
    /\ upc[t] = "idle"
    /\ \/ upc'[t] = "add_store" /\ unet'[t] = p
       \/ /\ upc'[t] = "idle"
          /\ uret'[t] # uret[t]
          /\ uret'[t].call = "add"
          /\ uret'[t].name = p.name

StoreFull == Cardinality(Stored) = WLAN_MAX_KNOWN_NETWORKS

C18_FullStoreRejects ==
    [][/\ Cardinality({k \in DOMAIN networks' : networks'[k].name # ""})
             <= WLAN_MAX_KNOWN_NETWORKS
       /\ \A t \in Threads : \A p \in AddProfiles :
              (/\ AddCalled(t, p)
               /\ StoreFull
               /\ add_network_check(State, p) = "OK"
               /\ FindNetwork(State, p.name) = -1)
              => /\ upc'[t] = "idle"
                 /\ uret'[t].ret = "WM_E_NOMEM"
                 /\ networks' = networks
                 /\ num_networks' = num_networks]_vars

C18_Witness ==
    /\ StoreFull
    /\ \E t \in Threads :
           /\ upc[t] = "idle"
           /\ uret[t] = [call |-> "add", name |-> "guest", ret |-> "WM_E_NOMEM"]
    /\ FindNetwork(State, "guest") = -1

(***************************************************************************)
(* C19.  After any sequence of wlan_add_network and wlan_remove_network    *)
(* calls (none of them in progress), wlan_get_network(i) succeeds and      *)
(* returns a stored profile for every index i from 0 to                    *)
(* wlan_get_network_count() - 1.                                           *)
(***************************************************************************)
C19_EveryIndexBelowCountReadable ==
    (\A t \in Threads : upc[t] = "idle") =>
        \A index \in 0 .. WLAN_MAX_KNOWN_NETWORKS :
            index < wlan_get_network_count(State) =>
                /\ wlan_get_network(State, index).ret = "WM_SUCCESS"
                /\ \E k \in Stored :
                       networks[k] = wlan_get_network(State, index).network

(***************************************************************************)
(* C20.  For a WPA, WPA2 or WPA/WPA2-mixed profile wlan_add_network        *)
(* accepts the profile exactly when the PSK length is between 8 and 63, or *)
(* is 64 with all 64 characters hexadecimal digits; a profile that is not  *)
(* accepted gets -WM_E_INVAL, and an accepted one WM_SUCCESS unless        *)
(* the driver call wifi_send_clear_wpa_psk fails.                          *)
(***************************************************************************)
PskAcceptable(network) ==
    \/ network.psk_len >= 8 /\ network.psk_len <= 63
    \/ /\ network.psk_len = 64
       /\ Len(network.psk) = 64
       /\ \A k \in 1 .. 64 : network.psk[k] \in HexChars

C20_PskAcceptedExactlyWhenValid ==
    [][\A t \in Threads :
          /\ (/\ upc[t] = "idle"
              /\ unet[t].security \in KeySecurities
              /\ calls_left' = calls_left - 1)
             => IF PskAcceptable(unet[t])
                THEN upc'[t] = "add_store"
                ELSE upc'[t] = "idle" /\ uret'[t].ret = "WM_E_INVAL"
          /\ (/\ upc[t] = "add_store"
              /\ upc'[t] = "idle"
              /\ faults_left' = faults_left)
             => uret'[t].ret = "WM_SUCCESS"]_vars

C20_Witness ==
    \E t \in Threads :
        /\ unet[t].security \in KeySecurities
        /\ unet[t].psk_len = 64
        /\ \E k \in 1 .. 64 : unet[t].psk[k] \notin HexChars
        /\ upc[t] = "idle"
        /\ uret[t] = [call |-> "add", name |-> unet[t].name, ret |-> "WM_E_INVAL"]

(***************************************************************************)
(* C21.  wlan_add_network accepts a profile name of every length from      *)
(* WLAN_NETWORK_NAME_MIN_LENGTH to WLAN_NETWORK_NAME_MAX_LENGTH characters *)
(* inclusive, and rejects a name of length 0 or of more than               *)
(* WLAN_NETWORK_NAME_MAX_LENGTH characters with -WM_E_INVAL.               *)
(***************************************************************************)
C21_NameLengthAccepted ==
    [][\A t \in Threads :
          (/\ upc[t] = "idle"
           /\ unet[t] \in NameProfiles
           /\ calls_left' = calls_left - 1)
          => IF /\ Len(unet[t].name) >= WLAN_NETWORK_NAME_MIN_LENGTH
                /\ Len(unet[t].name) <= WLAN_NETWORK_NAME_MAX_LENGTH
             THEN upc'[t] = "add_store"
             ELSE upc'[t] = "idle" /\ uret'[t].ret = "WM_E_INVAL"]_vars

(***************************************************************************)
(* C22.  Every wlan_start_network call that returned success is eventually *)
(* answered through the callback, with WLAN_REASON_UAP_SUCCESS or          *)
(* WLAN_REASON_UAP_START_FAILED, provided the dispatcher runs and the      *)
(* firmware and the IP stack answer, and unless the application asks for   *)
(* the network to be stopped.                                              *)
(***************************************************************************)
Queued(ev) == \E k \in DOMAIN events : events[k].event = ev

StopRequested ==
    \/ Queued("CM_UAP_USER_REQUEST_STOP")
    \/ \E t \in Threads : uret[t].call = "stop" /\ uret[t].ret = "WM_SUCCESS"

C22_StartAnswered ==
    Queued("CM_UAP_USER_REQUEST_START")
        ~> (Emitted("UAP_SUCCESS") \/ Emitted("UAP_START_FAILED") \/ StopRequested)

(***************************************************************************)
(* C23.  Of two successive wlan_ieeeps_on calls with no wlan_ieeeps_off    *)
(* between them the second returns an error, so that a single PS_ENTER     *)
(* request is issued: the queue never holds two of them, whether or not    *)
(* the dispatcher has handled the first when the second call is made.      *)
(***************************************************************************)
PsEnterQueued ==
    {k \in DOMAIN events : events[k].event = "CM_STA_USER_REQUEST_PS_ENTER"}

C23_SinglePsEnter == Cardinality(PsEnterQueued) <= 1

(***************************************************************************)
(* C24.  With IEEE power save requested, the first successful              *)
(* IEEE_PS(SLEEP_CONFIRM) event gives WLAN_REASON_PS_ENTER to the callback *)
(* once and further sleep confirms give nothing; a successful              *)
(* IEEE_PS(DIS_AUTO_PS) gives WLAN_REASON_PS_EXIT.  The first formula adds *)
(* that PS_EXIT comes only after the PS_ENTER of the same power-save       *)
(* session; the second one leaves that out.                                *)
(***************************************************************************)
IeeePsDue(action) ==
    /\ Handles("IEEE_PS")
    /\ Head(events).reason = "SUCCESS"
    /\ Head(events).data = action

C24_EnterOnceThenExit ==
    [][/\ IeeePsDue("SLEEP_CONFIRM") =>
             cb_log' = IF ieee_ps_sleep_cb_sent THEN <<>> ELSE <<"PS_ENTER">>
       /\ IeeePsDue("DIS_AUTO_PS") => cb_log' = <<"PS_EXIT">>
       /\ (/\ sta_state = CM_STA_CONNECTED
           /\ \E k \in DOMAIN cb_log' : cb_log'[k] = "PS_EXIT")
             => ieee_ps_sleep_cb_sent]_vars

C24_EnterOnceAndExit ==
    [][/\ IeeePsDue("SLEEP_CONFIRM") =>
             cb_log' = IF ieee_ps_sleep_cb_sent THEN <<>> ELSE <<"PS_ENTER">>
       /\ IeeePsDue("DIS_AUTO_PS") => cb_log' = <<"PS_EXIT">>
       /\ (\E k \in DOMAIN cb_log' : cb_log'[k] = "PS_EXIT")
             => IeeePsDue("DIS_AUTO_PS")]_vars

C24_Witness ==
    /\ sta_state = CM_STA_CONNECTED
    /\ cm_ieeeps_configured
    /\ ieee_ps_sleep_cb_sent
    /\ cb_log = <<"PS_ENTER">>

(***************************************************************************)
(* C25.  Each wake-lock get is paired with exactly one put: over any       *)
(* sequence of connect, disconnect and host-sleep requests and of driver   *)
(* events the number of wakelock_put calls never exceeds the number of     *)
(* wakelock_get calls.                                                     *)
(***************************************************************************)
C25_PutsNeverExceedGets == wakelock >= 0

(***************************************************************************)
(* C26.  The state of the connection manager's state machine is written by *)
(* the dispatcher only: a step of a user call or of a timer callback, which *)
(* may enqueue an event or take the scan lock, leaves sta_state,           *)
(* reassoc_count, roam_reassoc, assoc_paused and the power-save configured *)
(* flag as they were.                                                      *)
(***************************************************************************)
fsmVars ==
    <<sta_state, reassoc_count, roam_reassoc, assoc_paused, cm_ieeeps_configured>>

C26_FsmStatePrivate == [][Dispatch \/ UNCHANGED fsmVars]_vars

(***************************************************************************)
(* C27.  Within a connection attempt the pipeline is followed in order:    *)
(* the station becomes ASSOCIATING when a scan result is handled while     *)
(* SCANNING, ASSOCIATED when an ASSOCIATION success is handled while       *)
(* ASSOCIATING, REQUESTING_ADDRESS (with AuthSuccess) when an              *)
(* AUTHENTICATION success is handled while ASSOCIATED, and CONNECTED (with *)
(* Success) when the address configuration succeeds in                    *)
(* REQUESTING_ADDRESS or the DHCP client succeeds in OBTAINING_ADDRESS; no *)
(* other event advances the state, Success is reported only on entering    *)
(* CONNECTED, and a failure of the step awaited puts the station back to   *)
(* scanning or idle.  Reassociation (roam_reassoc) and the return from a   *)
(* user scan are left aside.                                               *)
(***************************************************************************)
PipelineDue(ev, state) ==
    Handles(ev) /\ Head(events).reason = "SUCCESS" /\ sta_state = state

PipelineFails(ev, state) ==
    Handles(ev) /\ Head(events).reason # "SUCCESS" /\ sta_state = state

Enters(state) == sta_state # state /\ sta_state' = state

Reports(r) == \E k \in DOMAIN cb_log' : cb_log'[k] = r

C27_PipelineInOrder ==
    [][(~roam_reassoc /\ sta_state # CM_STA_SCANNING_USER) =>
        /\ Enters(CM_STA_ASSOCIATING) =>
               Handles("SCAN_RESULT") /\ sta_state = CM_STA_SCANNING
        /\ Enters(CM_STA_ASSOCIATED) =>
               PipelineDue("ASSOCIATION", CM_STA_ASSOCIATING)
        /\ Enters(CM_STA_REQUESTING_ADDRESS) =>
               /\ PipelineDue("AUTHENTICATION", CM_STA_ASSOCIATED)
               /\ Reports("AUTH_SUCCESS")
        /\ Enters(CM_STA_OBTAINING_ADDRESS) =>
               PipelineDue("NET_STA_ADDR_CONFIG", CM_STA_REQUESTING_ADDRESS)
        /\ Enters(CM_STA_CONNECTED) =>
               /\ \/ PipelineDue("NET_STA_ADDR_CONFIG", CM_STA_REQUESTING_ADDRESS)
                  \/ PipelineDue("NET_DHCP_CONFIG", CM_STA_OBTAINING_ADDRESS)
               /\ Reports("SUCCESS")
        /\ Reports("SUCCESS") => Enters(CM_STA_CONNECTED)
        /\ (\/ PipelineFails("ASSOCIATION", CM_STA_ASSOCIATING)
            \/ PipelineFails("AUTHENTICATION", CM_STA_ASSOCIATED)
            \/ PipelineFails("NET_STA_ADDR_CONFIG", CM_STA_REQUESTING_ADDRESS)
            \/ PipelineFails("NET_DHCP_CONFIG", CM_STA_OBTAINING_ADDRESS)) =>
               sta_state' <= CM_STA_SCANNING]_vars

(***************************************************************************)
(* C28.  A LINK_LOSS event handled while the station is CONNECTED reports  *)
(* LinkLost to the callback and returns the station to IDLE.  As stated,   *)
(* the station is IDLE after the step:                                     *)
(***************************************************************************)
LinkLossDue(states) == Handles("LINK_LOSS") /\ sta_state \in states

C29_LinkLossAddressFailed ==
    [][LinkLossDue({CM_STA_REQUESTING_ADDRESS, CM_STA_OBTAINING_ADDRESS}) =>
          Reports("ADDRESS_FAILED")]_vars

(***************************************************************************)
(* C30.  A DEAUTHENTICATION event handled while the station is CONNECTED   *)
(* or ASSOCIATED returns the station to IDLE.                              *)
(***************************************************************************)
C30_DeauthToIdle ==
    [][(/\ Handles("DEAUTHENTICATION")
        /\ sta_state \in {CM_STA_ASSOCIATED, CM_STA_CONNECTED}) =>
          sta_state' = CM_STA_IDLE]_vars

(***************************************************************************)
(* C31.  After an authentication failure with reason MIC_FAILURE no        *)
(* association attempt is started until the pause timer has fired: a step  *)
(* that leaves assoc_paused set sends no connect scan and no association   *)
(* command to the driver, be it for a user connect request or for an       *)
(* automatic reconnection.                                                 *)
(***************************************************************************)
ConnectScanStarts == sta_state' = CM_STA_SCANNING /\ drv_scans' > drv_scans

AssociationStarts == drv_link # "assoc_req" /\ drv_link' = "assoc_req"

C31_NoAttemptWhilePaused ==
    [][assoc_paused' => ~ConnectScanStarts /\ ~AssociationStarts]_vars

(***************************************************************************)
(* C32.  When an explicit user disconnect is processed the reassociation   *)
(* counters are cleared.  As stated, reassoc_count and scan_count are zero *)
(* after the step:                                                         *)
(***************************************************************************)
DisconnectDue ==
    Handles("CM_STA_USER_REQUEST_DISCONNECT") /\ ~IdleForDisconnect

C32_CountersZeroed ==
    [][DisconnectDue => reassoc_count' = 0 /\ scan_count' = 0]_vars

(***************************************************************************)
(* C32, as the code has it: when a reconnection is in progress             *)
(* (reassoc_control and reassoc_request) the step sets scan_count to       *)
(* WLAN_RESCAN_LIMIT and reassoc_count to WLAN_RECONNECT_LIMIT and clears  *)
(* reassoc_request, so that no further rescan or reconnection is made;     *)
(* otherwise it leaves the three as they were.                             *)
(***************************************************************************)
C32_CountersSaturated ==
    [][DisconnectDue =>
          IF reassoc_control /\ reassoc_request
          THEN /\ scan_count' = WLAN_RESCAN_LIMIT
               /\ reassoc_count' = WLAN_RECONNECT_LIMIT
               /\ ~reassoc_request'
          ELSE UNCHANGED <<scan_count, reassoc_count, reassoc_request>>]_vars

C32_Witness ==
    /\ cb_log = <<"USER_DISCONNECT">>
    /\ sta_state = CM_STA_IDLE
    /\ scan_count = WLAN_RESCAN_LIMIT
    /\ reassoc_count = WLAN_RECONNECT_LIMIT
    /\ ~reassoc_request

(***************************************************************************)
(* C33.  A wlan_add_network call that returns an error, the failure of the *)
(* driver call made after the slot was chosen included, leaves the profile *)
(* store as it was: no slot is written and the count is unchanged.         *)
(***************************************************************************)
AddReturnsError(t) ==
    /\ uret'[t] # uret[t] \/ upc[t] = "add_store"
    /\ upc'[t] = "idle"
    /\ uret'[t].call = "add"
    /\ uret'[t].ret # "WM_SUCCESS"

C33_FailedAddLeavesStore ==
    [][\A t \in Threads :
          AddReturnsError(t) => UNCHANGED <<networks, num_networks>>]_vars

(***************************************************************************)
(* C34.  When a uAP start fails in the state machine (the driver reports   *)
(* UAP_STARTED with a failure, or the configuration of the IP address      *)
(* fails) the uAP state machine ends in INITIALIZING; it is not left in    *)
(* CONFIGURED or STARTED.                                                  *)
(***************************************************************************)
UapStartFails ==
    /\ Handles("UAP_STARTED") \/ Handles("UAP_NET_ADDR_CONFIG")
    /\ Reports("UAP_START_FAILED") \/ Reports("ADDRESS_FAILED")

C34_FailedStartRolledBack ==
    [][UapStartFails => uap_state' = CM_UAP_INITIALIZING]_vars

\* C35: a sleep-confirm command is never sent to the driver while the driver
\* has a transfer pending, on whatever path the manager reacts to the
\* driver's SLEEP event.
C35_NoConfirmDuringTransfer == ~(slp_cfm_sent /\ xfer_pending)

\* The power-save machine is in IEEEPS_INIT and no sleep confirm is owed.
PsFsmAtRest ==
    /\ ieeeps_state = "IEEEPS_INIT"
    /\ ieeeps_prev_state = "IEEEPS_INIT"
    /\ ~g_req_sl_confirm

\* The dispatcher handles the firmware's answer to the enter-power-save
\* command that an accepted wlan_ieeeps_on caused.
EnterPsConfirmed ==
    /\ Handles("IEEE_PS")
    /\ Head(events).reason = "SUCCESS"
    /\ Head(events).data = "EN_AUTO_PS"
    /\ cm_ieeeps_configured

\* C36: once the driver has confirmed the enter-power-save command of an
\* accepted wlan_ieeeps_on, the power-save machine has left IEEEPS_INIT for
\* IEEEPS_CONFIGURING.
C36_FsmLeavesInit ==
    [][EnterPsConfirmed => ieeeps_state' = "IEEEPS_CONFIGURING"]_vars

\* C37: from the step in which the dispatcher handled a user disconnect until
\* the next step of a wlan_connect or wlan_reassociate call, no step starts a
\* scan for a connection or an association, whatever events of the driver
\* arrive.  (A connect request that was queued behind the disconnect is the
\* user's: handling it ends the interval as the call itself does.)
C37_QuietAfterDisconnect ==
    [][user_disconnected /\ user_disconnected' =>
           ~ConnectScanStarts /\ ~AssociationStarts]_vars

\* The dispatcher's step sent a scan command that the driver rejected: the
\* station is SCANNING and the dispatcher queued SCAN_RESULT(FAILURE) itself.
ScanCommandRejected ==
    /\ events # <<>>
    /\ Len(events') = Len(events)
    /\ events'[Len(events')] = Msg("SCAN_RESULT", "FAILURE", 0)
    /\ sta_state' = CM_STA_SCANNING

\* C38: a scan command that the driver rejects counts towards
\* WLAN_RESCAN_LIMIT like one that it accepts: it is the first of a new
\* attempt or one more of the running one, so that an attempt whose every
\* scan command is rejected ends after WLAN_RESCAN_LIMIT of them.
C38_RejectedScanCounts ==
    [][ScanCommandRejected =>
           IF Head(events).event = "SCAN_RESULT"
           THEN scan_count' = scan_count + 1
           ELSE scan_count' = 1]_vars

\* With such a driver the station would leave SCANNING for IDLE in the end.
RejectedAttemptEnds == (sta_state = CM_STA_SCANNING) ~> (sta_state = CM_STA_IDLE)

\* The step delivers one of the failure results of a connection attempt.
AttemptFailures ==
    {"NETWORK_NOT_FOUND", "NETWORK_AUTH_FAILED", "ADDRESS_FAILED", "CONNECT_FAILED"}

FailureReported == \E r \in AttemptFailures : Reports(r)

\* C39: the step that delivers a failure result of a connection attempt
\* starts no scan and no association for that attempt: a scan that it starts
\* is the reconnection counted by reassoc_count.  This holds also when what
\* failed is the association command in start_association.
C39_FailureEndsAttempt ==
    [][FailureReported /\ (ConnectScanStarts \/ AssociationStarts) =>
           reassoc_count' = reassoc_count + 1]_vars

\* The association pause expires while a connect request is deferred: the
\* timer task queues the request that resumes it.
PauseExpiresPending ==
    /\ timer_active /\ ~timer_active'
    /\ pending_assoc_request
    /\ Len(events') = Len(events) + 1

\* C40: the connect request that the timer task queues when the pause
\* expires carries the index of the profile whose connect request the pause
\* deferred.
C40_ResumesRequestedProfile ==
    [][PauseExpiresPending => events'[Len(events')].data = deferred_idx]_vars

=============================================================================
